---- MODULE Spec2Model ----
(***************************************************************************)
(* A model of the text-editing core of T: the rope and its readers         *)
(* (package rope), the diffs of package edit, and the parser of package    *)
(* re1.                                                                    *)
(*                                                                         *)
(* Ropes live in a heap of cells so that sharing between ropes, and any    *)
(* write to a cell that an older rope still reaches, is visible.           *)
(* Bytes are integers 0..255; a string is a sequence of bytes.             *)
(***************************************************************************)
EXTENDS Integers, Sequences, FiniteSets, TLC

VARIABLES
    heap,     \* the cells allocated so far; a Rope is an index into heap
    held,     \* ropes the caller still holds, each with the string it was built to be
    last,     \* the most recent rope operation: its operands (src, ins), its
              \* indices (a, b), whether it panicked, and the ropes it returned
    nops,     \* number of rope operations performed so far
    doc,      \* package edit: the rope the caller edits
    ds,       \* the Diffs the caller has composed
    dot,      \* the caller's selection [start, end)
    epc,      \* what the caller of package edit did last
    out,      \* what Apply, the Apply of the undo, and Update returned
    pat,      \* package re1: the pattern text handed to New, a sequence of runes
    popts,    \* the Opts handed to New
    ppc,      \* "text" before New is called, "compiled" after it returned or panicked
    pres,     \* what New returned: regexp, residual text, error, or a panic
    rrope,    \* Reader and ReverseReader: the rope being read (NIL when none)
    plan,     \* the caller's calls: k calls of kind first, then the other kind
              \* to the end; plen is the length of the slice handed to Read
    fwd,      \* the Reader, what its calls returned, and how it ended
    bwd,      \* the ReverseReader, likewise
    found,    \* re1 matching: the last Find call and what it returned
    ran       \* package edit: the last command run and what it returned

ropeVars == <<held, last, nops>>

editVars == <<doc, ds, dot, epc, out>>

parseVars == <<pat, popts, ppc, pres>>

readVars == <<rrope, plan, fwd, bwd>>

useVars == <<found, ran>>

vars == <<heap, held, last, nops, doc, ds, dot, epc, out, pat, popts, ppc, pres,
          rrope, plan, fwd, bwd, found, ran>>

----------------------------------------------------------------------------
(* Bounds of the model. *)

MaxOps == 3

MaxDiffs == 2

MaxAt == 4

MaxPat == 3

MaxText == 3

MaxSwitch == 2

\* The length of the documents the commands are run on.
MaxDoc == 3

----------------------------------------------------------------------------
(* The result of a call is bound once, as x in Only({ e : x \in {call} }), *)
(* and then read as often as the caller reads it.                          *)

Only(S) == CHOOSE x \in S : TRUE

----------------------------------------------------------------------------
(* package rope: leaf, node, New, Empty, Append, split and its callers. *)

NIL == 0

smallSize == 32

LeafCell(text) ==
    [kind |-> "leaf", text |-> text, left |-> NIL, right |-> NIL, len |-> 0]

NodeCell(left, right, len) ==
    [kind |-> "node", text |-> <<>>, left |-> left, right |-> right, len |-> len]

\* Rope.Len(): a leaf computes it, a node returns its cached len.
RopeLen(h, p) ==
    IF h[p].kind = "leaf" THEN Len(h[p].text) ELSE h[p].len

\* Rope.String(): a depth-first write of the leaves.
RECURSIVE String(_, _)
String(h, p) ==
    IF h[p].kind = "leaf"
    THEN h[p].text
    ELSE String(h, h[p].left) \o String(h, h[p].right)

\* New allocates a fresh leaf.
New(h, text) ==
    [h |-> Append(h, LeafCell(text)), p |-> Len(h) + 1]

Empty(h) == New(h, <<>>)

NewNode(h, left, right, len) ==
    [h |-> Append(h, NodeCell(left, right, len)), p |-> Len(h) + 1]

\* A slip of Append: the small-niece path rewrites the right leaf of l in place.
RopeAppendInPlace(h, l, r) ==
    IF RopeLen(h, l) = 0 THEN [h |-> h, p |-> r]
    ELSE IF RopeLen(h, r) = 0 THEN [h |-> h, p |-> l]
    ELSE IF RopeLen(h, l) + RopeLen(h, r) <= smallSize
         THEN New(h, String(h, l) \o String(h, r))
    ELSE IF h[l].kind = "node" /\ RopeLen(h, h[l].right) + RopeLen(h, r) <= smallSize
         THEN [h |-> [h EXCEPT ![h[l].right] =
                          LeafCell(String(h, h[l].right) \o String(h, r)),
                                 ![l].len = RopeLen(h, l) + RopeLen(h, r)],
               p |-> l]
    ELSE NewNode(h, l, r, RopeLen(h, l) + RopeLen(h, r))

\* A slip of Append: the small-niece path forgets to add r to the cached len.
RopeAppendStaleLen(h, l, r) ==
    IF RopeLen(h, l) = 0 THEN [h |-> h, p |-> r]
    ELSE IF RopeLen(h, r) = 0 THEN [h |-> h, p |-> l]
    ELSE IF RopeLen(h, l) + RopeLen(h, r) <= smallSize
         THEN New(h, String(h, l) \o String(h, r))
    ELSE IF h[l].kind = "node" /\ RopeLen(h, h[l].right) + RopeLen(h, r) <= smallSize
         THEN LET a == New(h, String(h, h[l].right) \o String(h, r))
              IN  NewNode(a.h, h[l].left, a.p, RopeLen(h, l))
    ELSE NewNode(h, l, r, RopeLen(h, l) + RopeLen(h, r))

\* A slip of Append: the new node of l and r caches the length of l alone.
RopeAppendLeftLen(h, l, r) ==
    IF RopeLen(h, l) = 0 THEN [h |-> h, p |-> r]
    ELSE IF RopeLen(h, r) = 0 THEN [h |-> h, p |-> l]
    ELSE IF RopeLen(h, l) + RopeLen(h, r) <= smallSize
         THEN New(h, String(h, l) \o String(h, r))
    ELSE IF h[l].kind = "node" /\ RopeLen(h, h[l].right) + RopeLen(h, r) <= smallSize
         THEN LET a == New(h, String(h, h[l].right) \o String(h, r))
              IN  NewNode(a.h, h[l].left, a.p, RopeLen(h, l) + RopeLen(h, r))
    ELSE NewNode(h, l, r, RopeLen(h, l))

\* Append returns the concatenation of l and then r.
RopeAppend(h, l, r) ==
    IF RopeLen(h, l) = 0 THEN [h |-> h, p |-> r]
    ELSE IF RopeLen(h, r) = 0 THEN [h |-> h, p |-> l]
    ELSE IF RopeLen(h, l) + RopeLen(h, r) <= smallSize
         THEN New(h, String(h, l) \o String(h, r))
    ELSE IF h[l].kind = "node" /\ RopeLen(h, h[l].right) + RopeLen(h, r) <= smallSize
         THEN LET a == New(h, String(h, h[l].right) \o String(h, r))
              IN  NewNode(a.h, h[l].left, a.p, RopeLen(h, l) + RopeLen(h, r))
    ELSE NewNode(h, l, r, RopeLen(h, l) + RopeLen(h, r))

Panicked(h) == [h |-> h, l |-> NIL, r |-> NIL, panic |-> TRUE]

RECURSIVE split(_, _, _)

\* A slip of split: the left branch returns the right child alone and drops
\* the rest of the left child.
splitDropsRest(h, p, i) ==
    IF i < 0 \/ i > RopeLen(h, p) THEN Panicked(h)
    ELSE IF h[p].kind = "leaf"
    THEN LET a == New(h, SubSeq(h[p].text, 1, i))
             b == New(a.h, SubSeq(h[p].text, i + 1, Len(h[p].text)))
         IN  [h |-> b.h, l |-> a.p, r |-> b.p, panic |-> FALSE]
    ELSE IF i <= RopeLen(h, h[p].left)
    THEN Only({ IF s.panic THEN s
                ELSE [h |-> s.h, l |-> s.l, r |-> h[p].right, panic |-> FALSE]
                : s \in {split(h, h[p].left, i)} })
    ELSE Only({ IF s.panic THEN s
                ELSE LET a == RopeAppend(s.h, h[p].left, s.l)
                     IN  [h |-> a.h, l |-> a.p, r |-> s.r, panic |-> FALSE]
                : s \in {split(h, h[p].right, i - RopeLen(h, h[p].left))} })

\* A slip of split: the guard follows Split's doc comment, i >= rope.Len().
splitStrictGuard(h, p, i) ==
    IF i < 0 \/ i >= RopeLen(h, p) THEN Panicked(h)
    ELSE IF h[p].kind = "leaf"
    THEN LET a == New(h, SubSeq(h[p].text, 1, i))
             b == New(a.h, SubSeq(h[p].text, i + 1, Len(h[p].text)))
         IN  [h |-> b.h, l |-> a.p, r |-> b.p, panic |-> FALSE]
    ELSE IF i <= RopeLen(h, h[p].left)
    THEN Only({ IF s.panic THEN s
                ELSE LET a == RopeAppend(s.h, s.r, h[p].right)
                     IN  [h |-> a.h, l |-> s.l, r |-> a.p, panic |-> FALSE]
                : s \in {split(h, h[p].left, i)} })
    ELSE Only({ IF s.panic THEN s
                ELSE LET a == RopeAppend(s.h, h[p].left, s.l)
                     IN  [h |-> a.h, l |-> a.p, r |-> s.r, panic |-> FALSE]
                : s \in {split(h, h[p].right, i - RopeLen(h, h[p].left))} })

\* split panics on an out-of-bounds index, cuts a leaf's text at i, and
\* rebuilds the ancestors of the cut with Append.
split(h, p, i) ==
    IF i < 0 \/ i > RopeLen(h, p) THEN Panicked(h)
    ELSE IF h[p].kind = "leaf"
    THEN LET a == New(h, SubSeq(h[p].text, 1, i))
             b == New(a.h, SubSeq(h[p].text, i + 1, Len(h[p].text)))
         IN  [h |-> b.h, l |-> a.p, r |-> b.p, panic |-> FALSE]
    ELSE IF i <= RopeLen(h, h[p].left)
    THEN Only({ IF s.panic THEN s
                ELSE LET a == RopeAppend(s.h, s.r, h[p].right)
                     IN  [h |-> a.h, l |-> s.l, r |-> a.p, panic |-> FALSE]
                : s \in {split(h, h[p].left, i)} })
    ELSE Only({ IF s.panic THEN s
                ELSE LET a == RopeAppend(s.h, h[p].left, s.l)
                     IN  [h |-> a.h, l |-> a.p, r |-> s.r, panic |-> FALSE]
                : s \in {split(h, h[p].right, i - RopeLen(h, h[p].left))} })

Split(h, r, i) == split(h, r, i)

NoRope(h) == [h |-> h, p |-> NIL, panic |-> TRUE]

\* A slip of Delete: the second split is not rebased by the length of the left part.
DeleteNoRebase(h, r, start, n) ==
    Only({ IF s1.panic THEN NoRope(s1.h)
           ELSE Only({ IF s2.panic THEN NoRope(s2.h)
                       ELSE LET a == RopeAppend(s2.h, s1.l, s2.r)
                            IN  [h |-> a.h, p |-> a.p, panic |-> FALSE]
                       : s2 \in {split(s1.h, s1.r, start + n)} })
           : s1 \in {split(h, r, start)} })

\* Delete deletes n bytes from r beginning at index start.
Delete(h, r, start, n) ==
    Only({ IF s1.panic THEN NoRope(s1.h)
           ELSE Only({ IF s2.panic THEN NoRope(s2.h)
                       ELSE LET a == RopeAppend(s2.h, s1.l, s2.r)
                            IN  [h |-> a.h, p |-> a.p, panic |-> FALSE]
                       : s2 \in {split(s1.h, s1.r, start + n - RopeLen(s1.h, s1.l))} })
           : s1 \in {split(h, r, start)} })

\* Insert inserts ins into r at index i.
Insert(h, r, i, ins) ==
    Only({ IF s.panic THEN NoRope(s.h)
           ELSE Only({ LET b == RopeAppend(a.h, a.p, s.r)
                       IN  [h |-> b.h, p |-> b.p, panic |-> FALSE]
                       : a \in {RopeAppend(s.h, s.l, ins)} })
           : s \in {split(h, r, i)} })

\* Slice returns the bytes between start (inclusive) and end (exclusive).
Slice(h, r, start, end) ==
    Only({ IF s1.panic THEN NoRope(s1.h)
           ELSE Only({ IF s2.panic THEN NoRope(s2.h)
                       ELSE [h |-> s2.h, p |-> s2.l, panic |-> FALSE]
                       : s2 \in {split(s1.h, s1.r, end - start)} })
           : s1 \in {split(h, r, start)} })

----------------------------------------------------------------------------
(* The caller of package rope: it builds ropes from chunks with Append, and *)
(* splits, deletes from, inserts into and slices the ropes it holds.  Every *)
(* rope it was handed stays in held, as a rope kept for undo would.         *)

Fill(n, b) == [i \in 1..n |-> b + i]

\* The lengths of the byte strings ropes are built from: with smallSize they
\* reach each path of Append.  The bytes of a chunk differ from one append
\* to the next, so that a misplaced chunk shows in String().
ChunkLens == {0, 1, smallSize}

Chunk(n) == Fill(n, 50 * nops)

\* Offsets at which a leaf of the rope begins or ends.
RECURSIVE Bounds(_, _, _)
Bounds(h, p, off) ==
    IF h[p].kind = "leaf"
    THEN {off, off + Len(h[p].text)}
    ELSE Bounds(h, h[p].left, off)
         \cup Bounds(h, h[p].right, off + RopeLen(h, h[p].left))

\* The indices tried on a rope: every index next to a leaf boundary, and
\* the nearest out-of-range index on either side.
Cand(h, p) ==
    { i \in -1..(RopeLen(h, p) + 1) :
        \/ i < 0
        \/ i > RopeLen(h, p)
        \/ \E b \in Bounds(h, p, 0) : i \in (b - 1)..(b + 1) }

Held(p, s) == [p |-> p, s |-> s]

Last(op, src, a, b, ins, panic, out1, out2) ==
    [op |-> op, src |-> src, a |-> a, b |-> b, ins |-> ins,
     panic |-> panic, out1 |-> out1, out2 |-> out2]

RopeInit ==
    /\ heap = Empty(<<>>).h
    /\ held = << Held(Empty(<<>>).p, <<>>) >>
    /\ last = Last("Empty", NIL, 0, 0, NIL, FALSE, Empty(<<>>).p, NIL)
    /\ nops = 0

\* The caller builds ropes with up to MaxOps appends, then performs one
\* index operation on a rope it holds.
Building == last.op \in {"Empty", "Append"}

Latest == Len(held)

\* r = Append(r, New(c)), as a caller typing at the end of a text.
AppendRight(c) ==
    /\ Building /\ nops < MaxOps
    /\ LET n == New(heap, c)
           a == RopeAppend(n.h, held[Latest].p, n.p)
       IN  /\ heap' = a.h
           /\ held' = Append(held, Held(a.p, held[Latest].s \o c))
           /\ last' = Last("Append", held[Latest].p, 0, 0, n.p, FALSE, a.p, NIL)
    /\ nops' = nops + 1
    /\ UNCHANGED editVars /\ UNCHANGED parseVars /\ UNCHANGED readVars
    /\ UNCHANGED useVars

\* r = Append(New(c), r).
AppendLeft(c) ==
    /\ Building /\ nops < MaxOps
    /\ LET n == New(heap, c)
           a == RopeAppend(n.h, n.p, held[Latest].p)
       IN  /\ heap' = a.h
           /\ held' = Append(held, Held(a.p, c \o held[Latest].s))
           /\ last' = Last("Append", n.p, 0, 0, held[Latest].p, FALSE, a.p, NIL)
    /\ nops' = nops + 1
    /\ UNCHANGED editVars /\ UNCHANGED parseVars /\ UNCHANGED readVars
    /\ UNCHANGED useVars

\* r = Append(older rope, r): the result shares cells with both operands.
AppendHeld(j) ==
    /\ Building /\ nops < MaxOps
    /\ LET a == RopeAppend(heap, held[j].p, held[Latest].p)
       IN  /\ heap' = a.h
           /\ held' = Append(held, Held(a.p, held[j].s \o held[Latest].s))
           /\ last' = Last("Append", held[j].p, 0, 0, held[Latest].p, FALSE, a.p, NIL)
    /\ nops' = nops + 1
    /\ UNCHANGED editVars /\ UNCHANGED parseVars /\ UNCHANGED readVars
    /\ UNCHANGED useVars

DoSplit(k, i) ==
    /\ Building
    /\ LET s == Split(heap, held[k].p, i)
       IN  /\ heap' = s.h
           /\ held' = IF s.panic THEN held
                      ELSE held \o << Held(s.l, SubSeq(held[k].s, 1, i)),
                                      Held(s.r, SubSeq(held[k].s, i + 1, Len(held[k].s))) >>
           /\ last' = Last("Split", held[k].p, i, 0, NIL, s.panic, s.l, s.r)
    /\ nops' = nops + 1
    /\ UNCHANGED editVars /\ UNCHANGED parseVars /\ UNCHANGED readVars
    /\ UNCHANGED useVars

DoDelete(k, start, n) ==
    /\ Building
    /\ LET d == Delete(heap, held[k].p, start, n)
           s == held[k].s
       IN  /\ heap' = d.h
           /\ held' = IF d.panic THEN held
                      ELSE Append(held, Held(d.p, SubSeq(s, 1, start)
                                                  \o SubSeq(s, start + n + 1, Len(s))))
           /\ last' = Last("Delete", held[k].p, start, n, NIL, d.panic, d.p, NIL)
    /\ nops' = nops + 1
    /\ UNCHANGED editVars /\ UNCHANGED parseVars /\ UNCHANGED readVars
    /\ UNCHANGED useVars

DoInsert(k, i, c) ==
    /\ Building
    /\ LET n == New(heap, c)
           r == Insert(n.h, held[k].p, i, n.p)
           s == held[k].s
       IN  /\ heap' = r.h
           /\ held' = IF r.panic THEN held
                      ELSE Append(held, Held(r.p, SubSeq(s, 1, i) \o c
                                                  \o SubSeq(s, i + 1, Len(s))))
           /\ last' = Last("Insert", held[k].p, i, 0, n.p, r.panic, r.p, NIL)
    /\ nops' = nops + 1
    /\ UNCHANGED editVars /\ UNCHANGED parseVars /\ UNCHANGED readVars
    /\ UNCHANGED useVars

DoSlice(k, start, end) ==
    /\ Building
    /\ LET r == Slice(heap, held[k].p, start, end)
       IN  /\ heap' = r.h
           /\ held' = IF r.panic THEN held
                      ELSE Append(held, Held(r.p, SubSeq(held[k].s, start + 1, end)))
           /\ last' = Last("Slice", held[k].p, start, end, NIL, r.panic, r.p, NIL)
    /\ nops' = nops + 1
    /\ UNCHANGED editVars /\ UNCHANGED parseVars /\ UNCHANGED readVars
    /\ UNCHANGED useVars

\* The index pairs tried by Delete and Slice: a start next to a leaf boundary
\* with an end next to it or at either end of the rope.
Ends(h, p, a) ==
    { b \in Cand(h, p) : b \in (a - 1)..(a + 1) \/ b <= 0 \/ b >= RopeLen(h, p) }

RopeNext ==
    \/ \E n \in ChunkLens : AppendRight(Chunk(n))
    \/ \E n \in ChunkLens : AppendLeft(Chunk(n))
    \/ \E j \in DOMAIN held : AppendHeld(j)
    \/ Building /\ \E i \in Cand(heap, held[Latest].p) : DoSplit(Latest, i)
    \/ Building /\ \E a \in Cand(heap, held[Latest].p) :
           \E b \in Ends(heap, held[Latest].p, a) : DoDelete(Latest, a, b - a)
    \/ Building /\ \E i \in Cand(heap, held[Latest].p), n \in ChunkLens :
           DoInsert(Latest, i, Chunk(n))
    \/ Building /\ \E a \in Cand(heap, held[Latest].p) :
           \E b \in Ends(heap, held[Latest].p, a) : DoSlice(Latest, a, b)


----------------------------------------------------------------------------
(* Properties of package rope. *)

EditLaw ==
    LET s == String(heap, last.src)
        r == String(heap, last.out1)
    IN  /\ (last.op = "Delete" /\ ~last.panic) =>
              /\ r = SubSeq(s, 1, last.a) \o SubSeq(s, last.a + last.b + 1, Len(s))
              /\ RopeLen(heap, last.out1) = Len(s) - last.b
        /\ (last.op = "Insert" /\ ~last.panic) =>
              /\ r = SubSeq(s, 1, last.a) \o String(heap, last.ins)
                         \o SubSeq(s, last.a + 1, Len(s))
              /\ RopeLen(heap, last.out1) = Len(s) + Len(String(heap, last.ins))
        /\ (last.op = "Slice" /\ ~last.panic) =>
              /\ r = SubSeq(s, last.a + 1, last.b)
              /\ RopeLen(heap, last.out1) = last.b - last.a

\* A delete of bytes on both sides of a leaf boundary of a node.
EditLawWitness ==
    /\ last.op = "Delete" /\ ~last.panic
    /\ heap[last.src].kind = "node"
    /\ 0 < last.a /\ last.a < RopeLen(heap, heap[last.src].left)
    /\ last.a + last.b > RopeLen(heap, heap[last.src].left)
    /\ RopeLen(heap, last.out1) > 0

\* C6. Append law: while the caller only appends, every rope it was handed
\* reads as the concatenation of its chunks, and Len() is the byte count.
AppendLaw ==
    Building =>
        \A k \in DOMAIN held :
            /\ String(heap, held[k].p) = held[k].s
            /\ RopeLen(heap, held[k].p) = Len(held[k].s)

\* An Append that merged r into the right leaf of the node l.
AppendLawWitness ==
    /\ last.op = "Append"
    /\ heap[last.src].kind = "node"
    /\ RopeLen(heap, last.ins) > 0
    /\ heap[last.out1].kind = "node"
    /\ heap[last.out1].left = heap[last.src].left
    /\ String(heap, heap[last.out1].right)
         = String(heap, heap[last.src].right) \o String(heap, last.ins)

\* C7. Persistence: no step writes a cell that exists, and every rope held
\* before a step reads the same after it.
Persistent ==
    [][ /\ \A a \in DOMAIN heap : heap'[a] = heap[a]
        /\ \A k \in DOMAIN held :
              /\ held'[k] = held[k]
              /\ String(heap', held[k].p) = String(heap, held[k].p)
              /\ RopeLen(heap', held[k].p) = RopeLen(heap, held[k].p) ]_vars

\* An insert into a node that earlier ropes, still held, share cells with.
PersistentWitness ==
    /\ last.op = "Insert" /\ ~last.panic
    /\ heap[last.src].kind = "node"
    /\ 0 < last.a /\ last.a < RopeLen(heap, last.src)
    /\ \E k \in DOMAIN held :
          /\ held[k].p # last.src
          /\ held[k].p \in {heap[last.src].left, heap[last.src].right}

OutOfRange ==
    LET n == RopeLen(heap, last.src)
    IN  CASE last.op = "Split"  -> last.a < 0 \/ last.a > n
          [] last.op = "Delete" -> last.a < 0 \/ last.b < 0 \/ last.a + last.b > n
          [] last.op = "Insert" -> last.a < 0 \/ last.a > n
          [] last.op = "Slice"  -> last.a < 0 \/ last.b < last.a \/ last.b > n
          [] OTHER -> FALSE

----------------------------------------------------------------------------
(* package edit: Diff, Diffs, Update, Apply. *)

Diff(at0, at1, text) == [At |-> <<at0, at1>>, Text |-> text]

\* TextLen is the length of Text; 0 if Text is nil.
TextLen(h, d) == IF d.Text = NIL THEN 0 ELSE RopeLen(h, d.Text)

DiffUpdateNoShift(h, d, dt) ==
    LET delta == TextLen(h, d) - (d.At[2] - d.At[1])
    IN  IF d.At[1] >= dt[2] THEN dt
        ELSE IF d.At[2] <= dt[1] THEN dt
        ELSE IF dt[1] <= d.At[1] /\ d.At[2] < dt[2] THEN <<dt[1], dt[2] + delta>>
        ELSE IF d.At[1] <= dt[1] /\ dt[2] < d.At[2] THEN <<d.At[1], d.At[1]>>
        ELSE IF d.At[2] < dt[2]
             THEN <<d.At[1] + TextLen(h, d),
                    d.At[1] + TextLen(h, d) + (dt[2] - d.At[2])>>
        ELSE <<dt[1], d.At[1]>>

\* Diff.Update: the cases of the switch, in the order of the source.
DiffUpdate(h, d, dt) ==
    LET delta == TextLen(h, d) - (d.At[2] - d.At[1])
    IN  IF d.At[1] >= dt[2] THEN dt
        ELSE IF d.At[2] <= dt[1] THEN <<dt[1] + delta, dt[2] + delta>>
        ELSE IF dt[1] <= d.At[1] /\ d.At[2] < dt[2] THEN <<dt[1], dt[2] + delta>>
        ELSE IF d.At[1] <= dt[1] /\ dt[2] < d.At[2] THEN <<d.At[1], d.At[1]>>
        ELSE IF d.At[2] < dt[2]
             THEN <<d.At[1] + TextLen(h, d),
                    d.At[1] + TextLen(h, d) + (dt[2] - d.At[2])>>
        ELSE <<dt[1], d.At[1]>>

\* Diffs.Update: the Update of each diff, left to right.
RECURSIVE DiffsUpdate(_, _, _)
DiffsUpdate(h, dd, dt) ==
    IF dd = <<>> THEN dt
    ELSE DiffsUpdate(h, Tail(dd), DiffUpdate(h, Head(dd), dt))

\* Diff.Apply: the rope after the change, and the Diff that undoes it.
DiffApply(h, d, ro) ==
    LET del == d.At[1] < d.At[2]
    IN  Only({ Only({ Only({ [h |-> ins.h, ro |-> ins.p, panic |-> ins.panic,
                              undo |-> Diff(d.At[1], d.At[1] + TextLen(h, d), sl.p)]
                             : ins \in {IF ~dl.panic /\ TextLen(h, d) > 0
                                        THEN Insert(dl.h, dl.p, d.At[1], d.Text)
                                        ELSE dl} })
                      : dl \in {IF del /\ ~sl.panic
                                THEN Delete(sl.h, ro, d.At[1], d.At[2] - d.At[1])
                                ELSE [h |-> sl.h, p |-> ro, panic |-> sl.panic]} })
               : sl \in {IF del THEN Slice(h, ro, d.At[1], d.At[2])
                                ELSE [h |-> h, p |-> NIL, panic |-> FALSE]} })

ZeroDiffs(n) == [i \in 1..n |-> Diff(0, 0, NIL)]

RECURSIVE ApplyFrom(_, _, _, _, _)

\* A slip of Diffs.Apply: the undo of diff i is stored at i, not at len-i-1.
ApplyFromInOrder(h, dd, i, ro, undo) ==
    IF i > Len(dd) THEN [h |-> h, ro |-> ro, undo |-> undo, panic |-> FALSE]
    ELSE Only({ IF a.panic THEN [h |-> a.h, ro |-> NIL, undo |-> <<>>, panic |-> TRUE]
                ELSE ApplyFrom(a.h, dd, i + 1, a.ro, [undo EXCEPT ![i] = a.undo])
                : a \in {DiffApply(h, dd[i], ro)} })

\* The loop of Diffs.Apply from its i-th diff on: ro, undo[len-i-1] = d.Apply(ro).
ApplyFrom(h, dd, i, ro, undo) ==
    IF i > Len(dd) THEN [h |-> h, ro |-> ro, undo |-> undo, panic |-> FALSE]
    ELSE Only({ IF a.panic THEN [h |-> a.h, ro |-> NIL, undo |-> <<>>, panic |-> TRUE]
                ELSE ApplyFrom(a.h, dd, i + 1, a.ro,
                               [undo EXCEPT ![Len(dd) - i + 1] = a.undo])
                : a \in {DiffApply(h, dd[i], ro)} })

\* Diffs.Apply.
DiffsApply(h, dd, ro) == ApplyFrom(h, dd, 1, ro, ZeroDiffs(Len(dd)))

----------------------------------------------------------------------------
(* The caller of package edit: it composes a Diffs whose diffs are in      *)
(* bounds when applied in order, applies it, and applies the undo.         *)

NoOut == [ro |-> NIL, undo |-> <<>>, ro2 |-> NIL, undo2 |-> <<>>,
          panic |-> FALSE, dot |-> <<0, 0>>]

EditIdle ==
    /\ doc = NIL /\ ds = <<>> /\ dot = <<0, 0>> /\ epc = "idle" /\ out = NoOut

ParseIdle ==
    /\ pat = <<>> /\ popts = [Reverse |-> FALSE, Delimiter |-> 0]
    /\ ppc = "idle"
    /\ pres = [re |-> [nil |-> TRUE, prog |-> <<>>, ncap |-> 0, class |-> <<>>],
               t |-> <<>>, err |-> "", panic |-> FALSE]

ReadIdle ==
    /\ rrope = NIL
    /\ plan = [first |-> "byte", k |-> 0, plen |-> 1]
    /\ fwd = [rd |-> [todo |-> <<>>, text |-> <<>>, buf |-> <<0, 0, 0, 0>>, n |-> 0],
              log |-> <<>>, calls |-> 0, eof |-> TRUE, panic |-> FALSE]
    /\ bwd = [rd |-> [todo |-> <<>>, text |-> <<>>, buf |-> <<0, 0, 0, 0>>, n |-> 0],
              log |-> <<>>, calls |-> 0, eof |-> TRUE, panic |-> FALSE]

UseIdle ==
    /\ found = [call |-> "none"]
    /\ ran = [cmd |-> "none"]

RopeIdle ==
    /\ held = <<>>
    /\ last = Last("none", NIL, 0, 0, NIL, FALSE, NIL, NIL)
    /\ nops = 0

\* The texts a diff may put in: rope 1 is empty, rope 2 has one byte, rope 3 two.
TextHeap == << LeafCell(<<>>), LeafCell(<<9>>), LeafCell(<<8, 7>>) >>

Texts == {NIL, 2, 3}

\* The documents: leaves of up to two bytes, and a node of smallSize+1 bytes.
DocLens == {0, 1, 2}

DocHeaps ==
    { New(TextHeap, Fill(n, 0)) : n \in DocLens }
    \cup { LET a == New(TextHeap, <<1>>)
               b == New(a.h, Fill(smallSize, 100))
           IN  RopeAppend(b.h, a.p, b.p) }

\* Length of the text after the diffs composed so far.
RECURSIVE LenAfter(_, _, _)
LenAfter(h, dd, n) ==
    IF dd = <<>> THEN n
    ELSE LenAfter(h, Tail(dd),
                  n - (Head(dd).At[2] - Head(dd).At[1]) + TextLen(h, Head(dd)))

\* The offsets a diff is tried at: all of a short text, the ends and the
\* leaf boundary of a long one.
Offsets(n) == IF n <= 4 THEN 0..n ELSE {0, 1, 2, n - 1, n}

DiffInit ==
    /\ \E d \in DocHeaps : heap = d.h /\ doc = d.p
    /\ ds = <<>> /\ dot = <<0, 0>> /\ epc = "compose" /\ out = NoOut
    /\ RopeIdle /\ ParseIdle /\ ReadIdle /\ UseIdle

AddDiff(a0, a1, t) ==
    /\ epc = "compose" /\ Len(ds) < MaxDiffs
    /\ ds' = Append(ds, Diff(a0, a1, t))
    /\ UNCHANGED <<heap, doc, dot, epc, out>>
    /\ UNCHANGED ropeVars /\ UNCHANGED parseVars /\ UNCHANGED readVars
    /\ UNCHANGED useVars

Apply ==
    /\ epc = "compose"
    /\ \E r \in {DiffsApply(heap, ds, doc)} :
           /\ heap' = r.h
           /\ out' = [out EXCEPT !.ro = r.ro, !.undo = r.undo, !.panic = r.panic]
           /\ epc' = IF r.panic THEN "panic" ELSE "applied"
    /\ UNCHANGED <<doc, ds, dot>>
    /\ UNCHANGED ropeVars /\ UNCHANGED parseVars /\ UNCHANGED readVars
    /\ UNCHANGED useVars

Undo ==
    /\ epc = "applied"
    /\ \E r \in {DiffsApply(heap, out.undo, out.ro)} :
           /\ heap' = r.h
           /\ out' = [out EXCEPT !.ro2 = r.ro, !.undo2 = r.undo, !.panic = r.panic]
           /\ epc' = IF r.panic THEN "panic" ELSE "undone"
    /\ UNCHANGED <<doc, ds, dot>>
    /\ UNCHANGED ropeVars /\ UNCHANGED parseVars /\ UNCHANGED readVars
    /\ UNCHANGED useVars

DiffNext ==
    \/ /\ epc = "compose"
       /\ \E a0 \in Offsets(LenAfter(heap, ds, RopeLen(heap, doc))),
             a1 \in Offsets(LenAfter(heap, ds, RopeLen(heap, doc))), t \in Texts :
             a0 <= a1 /\ AddDiff(a0, a1, t)
    \/ Apply
    \/ Undo

DiffSpec == DiffInit /\ [][DiffNext]_vars

----------------------------------------------------------------------------
(* The caller of Diff.Update: a text box that keeps its dot across an edit. *)

Ranges == { <<a, b>> \in (0..MaxAt) \X (0..MaxAt) : a <= b }

UpdateInit ==
    /\ heap = TextHeap
    /\ doc = NIL
    /\ \E r \in Ranges, t \in Texts : ds = << Diff(r[1], r[2], t) >>
    /\ dot \in Ranges
    /\ epc = "edited" /\ out = NoOut
    /\ RopeIdle /\ ParseIdle /\ ReadIdle /\ UseIdle

Update ==
    /\ epc = "edited"
    /\ out' = [out EXCEPT !.dot = DiffsUpdate(heap, ds, dot)]
    /\ epc' = "updated"
    /\ UNCHANGED <<heap, doc, ds, dot>>
    /\ UNCHANGED ropeVars /\ UNCHANGED parseVars /\ UNCHANGED readVars
    /\ UNCHANGED useVars

UpdateNext == Update

UpdateSpec == UpdateInit /\ [][UpdateNext]_vars

----------------------------------------------------------------------------
(* Properties of package edit. *)

\* C1. Undo law: applying the undo returned by Apply to the rope returned by
\* Apply gives a rope that reads as the original, and the undo lists the
\* inverse of each diff in the reverse of the order of application.
UndoLaw ==
    /\ epc # "panic"
    /\ epc \in {"applied", "undone"} =>
          /\ Len(out.undo) = Len(ds)
          /\ \A i \in DOMAIN ds :
                out.undo[Len(ds) - i + 1].At
                    = <<ds[i].At[1], ds[i].At[1] + TextLen(heap, ds[i])>>
    /\ epc = "undone" => String(heap, out.ro2) = String(heap, doc)

\* Two diffs that both delete and insert were applied to a node and undone.
UndoLawWitness ==
    /\ epc = "undone"
    /\ heap[doc].kind = "node"
    /\ Len(ds) = 2
    /\ \A i \in DOMAIN ds : ds[i].At[1] < ds[i].At[2] /\ TextLen(heap, ds[i]) > 0
    /\ ds[1].At # ds[2].At
    /\ String(heap, out.ro) # String(heap, doc)

\* C2. A diff that is exactly a non-empty dot, or covers it, collapses the
\* dot to the end of the replacement text.
UpdateCollapses ==
    (epc = "updated" /\ dot[1] < dot[2]
        /\ ds[1].At[1] <= dot[1] /\ dot[2] <= ds[1].At[2]) =>
        out.dot = <<ds[1].At[1] + TextLen(heap, ds[1]),
                    ds[1].At[1] + TextLen(heap, ds[1])>>

----------------------------------------------------------------------------
(* package re1: the parser.  A rune is its code point; a text is a sequence *)
(* of runes; an instruction is an op (a literal rune, or one of the         *)
(* non-positive opcodes) with its argument.                                 *)

Rune == [c \in {"\n", "\t", " ", "$", "(", ")", "*", "+", "-", ".", "/", "0", "1", "2",
                "?", "[", "\\", "]", "^", "a", "b", "g", "n", "t", "|",
                "#", ",", ";", "3", "4"} |->
            CASE c = "\t" -> 9   [] c = "\n" -> 10  [] c = "$" -> 36
              [] c = "#" -> 35   [] c = "," -> 44   [] c = ";" -> 59
              [] c = "3" -> 51   [] c = "4" -> 52
              [] c = " " -> 32   [] c = "0" -> 48   [] c = "1" -> 49
              [] c = "2" -> 50   [] c = "g" -> 103
              [] c = "(" -> 40   [] c = ")" -> 41   [] c = "*" -> 42
              [] c = "+" -> 43   [] c = "-" -> 45   [] c = "." -> 46
              [] c = "/" -> 47   [] c = "?" -> 63   [] c = "[" -> 91
              [] c = "\\" -> 92  [] c = "]" -> 93   [] c = "^" -> 94
              [] c = "a" -> 97   [] c = "b" -> 98   [] c = "n" -> 110
              [] c = "t" -> 116  [] c = "|" -> 124]

match == 0
any == -1
bol == -2
eol == -3
class == -4
nclass == -5
jmp == -6
fork == -7
rfork == -8
save == -9

eof == -1

Instr(op, arg) == [op |-> op, arg |-> arg]

\* A *Regexp: nil, or a program with its capture count and class tables.
NilRe == [nil |-> TRUE, prog |-> <<>>, ncap |-> 0, class |-> <<>>]

Re(prog, ncap, cl) == [nil |-> FALSE, prog |-> prog, ncap |-> ncap, class |-> cl]

\* What a parsing function returns: (regexp, rest of the text, error), or a panic.
Ret(re, t, err) == [re |-> re, t |-> t, err |-> err, panic |-> FALSE]

RetPanic == [re |-> NilRe, t |-> <<>>, err |-> "", panic |-> TRUE]

reNext(t) == IF Len(t) = 0 THEN [r |-> eof, t |-> <<>>] ELSE [r |-> Head(t), t |-> Tail(t)]

rePeek(t) == reNext(t).r

reEsc(t) ==
    LET n == reNext(t)
    IN  [r |-> CASE n.r = eof -> Rune["\\"]
                 [] n.r = Rune["n"] -> Rune["\n"]
                 [] n.r = Rune["t"] -> Rune["\t"]
                 [] OTHER -> n.r,
         t |-> n.t]

opProg(op) == Re(<<Instr(op, 0)>>, 0, <<>>)

charClassProg(op, cl) == Re(<<Instr(op, 0)>>, 0, <<cl>>)

groupProg(left) ==
    Re(<<Instr(save, 0)>>
         \o [i \in DOMAIN left.prog |->
                IF left.prog[i].op = save
                THEN Instr(save, left.prog[i].arg + 2) ELSE left.prog[i]]
         \o <<Instr(save, 1)>>,
       left.ncap + 1, left.class)

repProg(left, op) ==
    LET n == Len(left.prog)
    IN  Re(CASE op = Rune["+"] -> left.prog \o <<Instr(rfork, -n)>>
             [] op = Rune["*"] -> <<Instr(fork, n + 2)>> \o left.prog \o <<Instr(rfork, -n)>>
             [] op = Rune["?"] -> <<Instr(fork, n + 1)>> \o left.prog,
           left.ncap, left.class)

\* catProg renumbers the saves of right by the captures of left, swaps the
\* operands when compiling in reverse, and shifts the class indices of the
\* operand that ends up second.
catProg(left, right, rev) ==
    LET right1 == [right EXCEPT !.prog =
                      [i \in DOMAIN right.prog |->
                          IF right.prog[i].op = save
                          THEN Instr(save, right.prog[i].arg + left.ncap * 2)
                          ELSE right.prog[i]]]
        l == IF rev THEN right1 ELSE left
        r == IF rev THEN left ELSE right1
    IN  Re(l.prog \o [i \in DOMAIN r.prog |->
                         IF r.prog[i].op \in {class, nclass}
                         THEN Instr(r.prog[i].op, r.prog[i].arg + Len(l.class))
                         ELSE r.prog[i]],
           l.ncap + r.ncap, l.class \o r.class)

\* altProg reads right.prog without checking right for nil: a nil right
\* is a nil pointer dereference.
altProg(left, right) ==
    IF right.nil THEN [panic |-> TRUE, re |-> NilRe]
    ELSE [panic |-> FALSE,
          re |-> catProg(Re(<<Instr(fork, Len(left.prog) + 2)>> \o left.prog
                               \o <<Instr(jmp, Len(right.prog) + 1)>>,
                            left.ncap, left.class),
                         right, FALSE)]

RECURSIVE classLoop(_, _, _, _)
classLoop(t, op, p, cl) ==
    IF Len(t) = 0 THEN Ret(NilRe, <<>>, "unclosed [")
    ELSE LET n == reNext(t)
         IN  IF n.r = Rune["]"]
             THEN LET cl1 == IF p # 0 THEN Append(cl, <<p, p>>) ELSE cl
                  IN  IF Len(cl1) = 0 THEN Ret(NilRe, <<>>, "empty charclass")
                      ELSE Ret(charClassProg(op, cl1), n.t, "")
             ELSE IF n.r = Rune["-"]
             THEN IF p = 0 \/ rePeek(n.t) = Rune["]"] \/ rePeek(n.t) = Rune["-"]
                  THEN Ret(NilRe, <<>>, "bad range")
                  ELSE LET m == reNext(n.t)
                           e == IF m.r = Rune["\\"] THEN reEsc(m.t) ELSE m
                       IN  IF p >= e.r THEN Ret(NilRe, <<>>, "bad range")
                           ELSE classLoop(e.t, op, 0, Append(cl, <<p, e.r>>))
             ELSE LET e == IF n.r = Rune["\\"] THEN reEsc(n.t) ELSE n
                  IN  classLoop(e.t, op, e.r,
                                IF p # 0 THEN Append(cl, <<p, p>>) ELSE cl)

charclass(t) ==
    IF rePeek(t) = Rune["^"]
    THEN classLoop(reNext(t).t, nclass, 0, <<>>)
    ELSE classLoop(t, class, 0, <<>>)

RECURSIVE alternate(_, _, _)
RECURSIVE concat(_, _, _)
RECURSIVE repeatLoop(_, _)

group(t, depth, opts) ==
    Only({ LET n == reNext(a.t)
           IN  IF a.panic THEN RetPanic
               ELSE IF a.err # "" THEN Ret(NilRe, <<>>, a.err)
               ELSE IF n.r # Rune[")"] THEN Ret(NilRe, <<>>, "unclosed (")
               ELSE Ret(groupProg(IF a.re.nil THEN Re(<<>>, 0, <<>>) ELSE a.re), n.t, "")
           : a \in {alternate(t, depth + 1, opts)} })

term(t0, depth, opts) ==
    LET n == reNext(t0)
        r == n.r
    IN  IF r = eof \/ r = Rune["\n"] \/ r = opts.Delimiter THEN Ret(NilRe, n.t, "")
        ELSE IF r = Rune["\\"] THEN Ret(opProg(reEsc(n.t).r), reEsc(n.t).t, "")
        ELSE IF r = Rune["."] THEN Ret(opProg(any), n.t, "")
        ELSE IF r = Rune["^"] THEN Ret(opProg(IF opts.Reverse THEN eol ELSE bol), n.t, "")
        ELSE IF r = Rune["$"] THEN Ret(opProg(IF opts.Reverse THEN bol ELSE eol), n.t, "")
        ELSE IF r = Rune["("] THEN group(n.t, depth, opts)
        ELSE IF r = Rune["["] THEN charclass(n.t)
        ELSE IF r = Rune["|"] THEN Ret(NilRe, t0, "")
        ELSE IF r = Rune[")"]
             THEN IF depth = 0 THEN Ret(NilRe, n.t, "unopened )") ELSE Ret(NilRe, t0, "")
        ELSE IF r = Rune["*"] THEN Ret(NilRe, <<>>, "unexpected *")
        ELSE IF r = Rune["+"] THEN Ret(NilRe, <<>>, "unexpected +")
        ELSE IF r = Rune["?"] THEN Ret(NilRe, <<>>, "unexpected ?")
        ELSE Ret(opProg(r), n.t, "")

\* The loop of repeat: one repProg for each following *, + or ?.
repeatLoop(left, t) ==
    IF rePeek(t) \in {Rune["*"], Rune["+"], Rune["?"]}
    THEN repeatLoop(repProg(left, rePeek(t)), reNext(t).t)
    ELSE Ret(left, t, "")

repeat(t, depth, opts) ==
    Only({ IF a.panic \/ a.re.nil \/ a.err # "" THEN a
           ELSE repeatLoop(a.re, a.t)
           : a \in {term(t, depth, opts)} })

concat(t, depth, opts) ==
    Only({ IF a.panic \/ a.re.nil \/ a.err # "" THEN a
           ELSE Only({ IF b.panic THEN RetPanic
                       ELSE IF b.err # "" THEN Ret(NilRe, <<>>, b.err)
                       ELSE IF ~b.re.nil
                            THEN Ret(catProg(a.re, b.re, opts.Reverse), b.t, "")
                       ELSE Ret(a.re, b.t, "")
                       : b \in {concat(a.t, depth, opts)} })
           : a \in {repeat(t, depth, opts)} })

alternate(t0, depth, opts) ==
    Only({ IF a.panic THEN RetPanic
           ELSE IF a.err # "" THEN Ret(NilRe, <<>>, a.err)
           ELSE IF rePeek(a.t) # Rune["|"] THEN Ret(a.re, a.t, "")
           ELSE IF a.re.nil THEN Ret(NilRe, <<>>, "unexpected |")
           ELSE Only({ IF b.panic THEN RetPanic
                       ELSE IF b.err # "" THEN Ret(NilRe, <<>>, b.err)
                       ELSE LET p == altProg(a.re, b.re)
                            IN  IF p.panic THEN RetPanic ELSE Ret(p.re, b.t, "")
                       : b \in {alternate(reNext(a.t).t, depth, opts)} })
           : a \in {concat(t0, depth, opts)} })

\* New compiles a regular expression and returns the text it did not consume.
re1New(t, opts) ==
    Only({ IF a.panic THEN RetPanic
           ELSE IF a.err # "" THEN Ret(NilRe, <<>>, a.err)
           ELSE LET g == groupProg(IF a.re.nil THEN Re(<<>>, 0, <<>>) ELSE a.re)
                IN  Ret([g EXCEPT !.prog = Append(g.prog, Instr(match, 0))], a.t, "")
           : a \in {alternate(t, 0, opts)} })

----------------------------------------------------------------------------
(* The caller of re1.New: Edit and Addr hand it the text after a delimiter  *)
(* (the delimiter being '/' for an address), other callers a whole pattern. *)

PatRunes == { Rune[c] : c \in {"a", "|", "(", ")", "*", "\\", "[", "]", "-", "/", "\n"} }

Pats == UNION { [1..n -> PatRunes] : n \in 0..MaxPat }

ParseInit ==
    /\ pat \in Pats
    /\ popts \in [Reverse : BOOLEAN, Delimiter : {0, Rune["/"]}]
    /\ ppc = "text"
    /\ pres = Ret(NilRe, <<>>, "")
    /\ heap = <<>> /\ RopeIdle /\ EditIdle /\ ReadIdle /\ UseIdle

Compile ==
    /\ ppc = "text"
    /\ pres' = re1New(pat, popts)
    /\ ppc' = "compiled"
    /\ UNCHANGED <<pat, popts, heap>>
    /\ UNCHANGED ropeVars /\ UNCHANGED editVars /\ UNCHANGED readVars
    /\ UNCHANGED useVars

ParseNext == Compile

ParseSpec == ParseInit /\ [][ParseNext]_vars

\* C3. No panic on input text: New returns for every pattern text, reporting
\* a malformed pattern as an error value.
NoPanic == ppc = "compiled" => ~pres.panic

----------------------------------------------------------------------------
(* package rope: iter, Reader and ReverseReader.  The decoding of package  *)
(* unicode/utf8 is written out as the readers call it.                     *)

UTFMax == 4

RuneError == 65533

RuneSelf == 128

Min(a, b) == IF a < b THEN a ELSE b

\* The size a first byte announces (0: not a first byte), and the range
\* it accepts for the second byte.
Utf8Size(b) ==
    IF b < 128 THEN 1
    ELSE IF b < 194 THEN 0
    ELSE IF b < 224 THEN 2
    ELSE IF b < 240 THEN 3
    ELSE IF b < 245 THEN 4
    ELSE 0

AcceptLo(b) == IF b = 224 THEN 160 ELSE IF b = 240 THEN 144 ELSE 128

AcceptHi(b) == IF b = 237 THEN 159 ELSE IF b = 244 THEN 143 ELSE 191

Cont(b) == 128 <= b /\ b <= 191

RuneStart(b) == ~Cont(b)

Decoded(r, w) == [r |-> r, w |-> w]

\* utf8.DecodeRune: the first rune of p and its width; (RuneError, 0) for
\* an empty p and (RuneError, 1) for an invalid or truncated encoding.
DecodeRune(p) ==
    IF Len(p) < 1 THEN Decoded(RuneError, 0)
    ELSE LET sz == Utf8Size(p[1])
         IN  IF sz = 1 THEN Decoded(p[1], 1)
             ELSE IF sz = 0 THEN Decoded(RuneError, 1)
             ELSE IF Len(p) < sz THEN Decoded(RuneError, 1)
             ELSE IF p[2] < AcceptLo(p[1]) \/ AcceptHi(p[1]) < p[2]
                  THEN Decoded(RuneError, 1)
             ELSE IF sz = 2 THEN Decoded((p[1] % 32) * 64 + (p[2] % 64), 2)
             ELSE IF ~Cont(p[3]) THEN Decoded(RuneError, 1)
             ELSE IF sz = 3
                  THEN Decoded((p[1] % 16) * 4096 + (p[2] % 64) * 64 + (p[3] % 64), 3)
             ELSE IF ~Cont(p[4]) THEN Decoded(RuneError, 1)
             ELSE Decoded((p[1] % 8) * 262144 + (p[2] % 64) * 4096
                              + (p[3] % 64) * 64 + (p[4] % 64), 4)

\* utf8.DecodeLastRune: the last rune of p and its width.
DecodeLastRune(p) ==
    LET end == Len(p)
        lim == IF end - UTFMax < 0 THEN 0 ELSE end - UTFMax
        starts == { i \in lim..(end - 2) : RuneStart(p[i + 1]) }
        start == IF starts # {} THEN CHOOSE i \in starts : \A j \in starts : j <= i
                 ELSE IF lim - 1 < 0 THEN 0 ELSE lim - 1
        d == DecodeRune(SubSeq(p, start + 1, end))
    IN  IF end = 0 THEN Decoded(RuneError, 0)
        ELSE IF p[end] < RuneSelf THEN Decoded(p[end], 1)
        ELSE IF start + d.w # end THEN Decoded(RuneError, 1)
        ELSE d

invalidUTF8(p) == DecodeRune(p).r = RuneError

\* A reader: the iterator's todo stack and current text, the buffer and the
\* number of buffered bytes.
NewReader(p) == [todo |-> <<p>>, text |-> <<>>, buf |-> <<0, 0, 0, 0>>, n |-> 0]

\* The loop of next: down to the first leaf (the last when bwd), pushing
\* the other child of each node.
RECURSIVE descend(_, _, _, _)
descend(h, it, p, back) ==
    IF h[p].kind = "leaf" THEN [it EXCEPT !.text = h[p].text]
    ELSE IF back
         THEN descend(h, [it EXCEPT !.todo = Append(it.todo, h[p].left)], h[p].right, back)
         ELSE descend(h, [it EXCEPT !.todo = Append(it.todo, h[p].right)], h[p].left, back)

iterNext(h, it, back) ==
    IF Len(it.todo) = 0 THEN [ok |-> FALSE, it |-> it]
    ELSE [ok |-> TRUE,
          it |-> descend(h, [it EXCEPT !.todo = SubSeq(it.todo, 1, Len(it.todo) - 1)],
                         it.todo[Len(it.todo)], back)]

\* for len(r.text) == 0 { if !next(...) { return 0, io.EOF } }
RECURSIVE skipEmpty(_, _, _)
skipEmpty(h, it, back) ==
    IF Len(it.text) # 0 THEN [ok |-> TRUE, it |-> it]
    ELSE Only({ IF ~nx.ok THEN nx ELSE skipEmpty(h, nx.it, back)
                : nx \in {iterNext(h, it, back)} })

ypocStr(len, src) == [i \in 1..Min(len, Len(src)) |-> src[Len(src) - i + 1]]

ypocByte(len, src) == [i \in 1..Min(len, Len(src)) |-> src[Len(src) - i + 1]]

\* Reader.read into a slice of length len.
read(h, rd, len) ==
    Only({ IF ~s.ok THEN [eof |-> TRUE, got |-> <<>>, rd |-> s.it]
           ELSE [eof |-> FALSE,
                 got |-> SubSeq(s.it.text, 1, Min(len, Len(s.it.text))),
                 rd  |-> [s.it EXCEPT !.text =
                             SubSeq(s.it.text, Min(len, Len(s.it.text)) + 1, Len(s.it.text))]]
           : s \in {skipEmpty(h, rd, FALSE)} })

\* ReverseReader.read into a slice of length len.
readReverse(h, rd, len) ==
    Only({ IF ~s.ok THEN [eof |-> TRUE, got |-> <<>>, rd |-> s.it]
           ELSE [eof |-> FALSE,
                 got |-> ypocStr(len, s.it.text),
                 rd  |-> [s.it EXCEPT !.text =
                             SubSeq(s.it.text, 1, Len(s.it.text) - Min(len, Len(s.it.text)))]]
           : s \in {skipEmpty(h, rd, TRUE)} })

\* What a call returns: the reader after it, the rune and width or the
\* bytes, and whether it returned io.EOF or panicked.
Called(rd, r, w, got, isEOF, panic) ==
    [rd |-> rd, r |-> r, w |-> w, got |-> got, eof |-> isEOF, panic |-> panic]

\* The loop of Reader.ReadRune: read into buf[n:] until buf[:n] starts with
\* a valid rune, is full, or the text ends.
RECURSIVE fill(_, _)
fill(h, rd) ==
    IF invalidUTF8(SubSeq(rd.buf, 1, rd.n)) /\ rd.n < UTFMax
    THEN Only({ IF x.eof THEN x.rd
                ELSE fill(h, [x.rd EXCEPT
                                !.buf = [i \in 1..UTFMax |->
                                           IF rd.n < i /\ i <= rd.n + Len(x.got)
                                           THEN x.got[i - rd.n] ELSE rd.buf[i]],
                                !.n = rd.n + Len(x.got)])
                : x \in {read(h, rd, UTFMax - rd.n)} })
    ELSE rd

\* Reader.ReadRune decodes the whole of buf, and slices buf[w:n].
ReadRune(h, rd0) ==
    Only({ IF rd.n = 0 THEN Called(rd, 0, 0, <<>>, TRUE, FALSE)
           ELSE LET d == DecodeRune(rd.buf)
                IN  IF d.w > rd.n THEN Called(rd, 0, 0, <<>>, FALSE, TRUE)
                    ELSE Called([rd EXCEPT
                                   !.buf = [i \in 1..UTFMax |->
                                              IF i <= rd.n - d.w THEN rd.buf[i + d.w]
                                              ELSE rd.buf[i]],
                                   !.n = rd.n - d.w],
                                d.r, d.w, <<>>, FALSE, FALSE)
           : rd \in {fill(h, rd0)} })

\* Reader.Read hands out buffered bytes first.
Read(h, rd, len) ==
    IF rd.n > 0
    THEN LET n == Min(len, rd.n)
         IN  Called([rd EXCEPT !.buf = [i \in 1..UTFMax |->
                                          IF i <= UTFMax - n THEN rd.buf[i + n]
                                          ELSE rd.buf[i]],
                               !.n = rd.n - n],
                    0, n, SubSeq(rd.buf, 1, n), FALSE, FALSE)
    ELSE Only({ Called(x.rd, 0, Len(x.got), x.got, x.eof, FALSE)
                : x \in {read(h, rd, len)} })

\* The loop of ReverseReader.ReadRune: shift buf right by one, then read
\* one byte into buf[0]; at the end of the text the shift stays.
RECURSIVE fillReverse(_, _)
fillReverse(h, rd) ==
    IF invalidUTF8(SubSeq(rd.buf, 1, rd.n)) /\ rd.n < UTFMax
    THEN Only({ IF x.eof
                THEN [x.rd EXCEPT !.buf = <<rd.buf[1], rd.buf[1], rd.buf[2], rd.buf[3]>>]
                ELSE fillReverse(h, [x.rd EXCEPT
                                       !.buf = <<x.got[1], rd.buf[1], rd.buf[2], rd.buf[3]>>,
                                       !.n = rd.n + 1])
                : x \in {readReverse(h, rd, 1)} })
    ELSE rd

ReverseReadRune(h, rd0) ==
    Only({ IF rd.n = 0 THEN Called(rd, 0, 0, <<>>, TRUE, FALSE)
           ELSE LET d == DecodeLastRune(SubSeq(rd.buf, 1, rd.n))
                IN  Called([rd EXCEPT !.n = rd.n - d.w], d.r, d.w, <<>>, FALSE, FALSE)
           : rd \in {fillReverse(h, rd0)} })

ReverseRead(h, rd, len) ==
    IF rd.n > 0
    THEN LET got == ypocByte(len, SubSeq(rd.buf, 1, rd.n))
         IN  Called([rd EXCEPT !.n = rd.n - Len(got)], 0, Len(got), got, FALSE, FALSE)
    ELSE Only({ Called(x.rd, 0, Len(x.got), x.got, x.eof, FALSE)
                : x \in {readReverse(h, rd, len)} })

----------------------------------------------------------------------------
(* The caller of the readers: it reads a rope to the end with a Reader and  *)
(* then with a ReverseReader, each by the same plan of calls.               *)

\* An ASCII byte, a continuation byte, and the first byte of a two-byte and
\* of a three-byte rune.
TextBytes == {97, 144, 195, 226}

ReadTexts == UNION { [1..n -> TextBytes] : n \in 0..MaxText }

\* smallSize bytes of four-byte runes: with them Append builds a node.
RECURSIVE Pad(_)
Pad(n) == IF n = 0 THEN <<>> ELSE <<240, 144, 144, 144>> \o Pad(n - 4)

\* The ropes read: the text as one leaf; the text cut in two leaves with
\* the pad after it; the same with the pad before it.
Shapes(t) ==
    { New(<<>>, t) }
    \cup { LET a == New(<<>>, SubSeq(t, 1, i))
               b == New(a.h, SubSeq(t, i + 1, Len(t)) \o Pad(smallSize))
           IN  RopeAppend(b.h, a.p, b.p) : i \in 1..Len(t) }
    \cup { LET a == New(<<>>, Pad(smallSize) \o SubSeq(t, 1, i))
               b == New(a.h, SubSeq(t, i + 1, Len(t)))
           IN  RopeAppend(b.h, a.p, b.p) : i \in 0..(Len(t) - 1) }

PLens == {1, UTFMax}

Side(p) == [rd |-> NewReader(p), log |-> <<>>, calls |-> 0, eof |-> FALSE, panic |-> FALSE]

ReaderInit ==
    /\ \E t \in ReadTexts : \E sh \in Shapes(t) :
          /\ heap = sh.h /\ rrope = sh.p
          /\ fwd = Side(sh.p) /\ bwd = Side(sh.p)
    /\ plan \in [first : {"rune", "byte"}, k : 0..MaxSwitch, plen : PLens]
    /\ RopeIdle /\ EditIdle /\ ParseIdle /\ UseIdle

\* The kind of the next call of a reader that has made n calls.
Kind(n) ==
    IF n < plan.k THEN plan.first
    ELSE IF plan.first = "rune" THEN "byte" ELSE "rune"

Entry(kind, c) == [kind |-> kind, r |-> c.r, w |-> c.w, got |-> c.got]

After(side, kind, c) ==
    [rd |-> c.rd,
     log |-> IF c.eof \/ c.panic THEN side.log ELSE Append(side.log, Entry(kind, c)),
     calls |-> side.calls + 1, eof |-> c.eof, panic |-> c.panic]

Reading(side) == ~side.eof /\ ~side.panic

OtherIdle ==
    UNCHANGED <<heap, rrope, plan>> /\ UNCHANGED ropeVars /\ UNCHANGED editVars
        /\ UNCHANGED parseVars /\ UNCHANGED useVars

FwdReadRune ==
    /\ Reading(fwd) /\ Kind(fwd.calls) = "rune"
    /\ fwd' = After(fwd, "rune", ReadRune(heap, fwd.rd))
    /\ UNCHANGED bwd /\ OtherIdle

FwdRead ==
    /\ Reading(fwd) /\ Kind(fwd.calls) = "byte"
    /\ fwd' = After(fwd, "byte", Read(heap, fwd.rd, plan.plen))
    /\ UNCHANGED bwd /\ OtherIdle

RevReadRune ==
    /\ ~Reading(fwd) /\ Reading(bwd) /\ Kind(bwd.calls) = "rune"
    /\ bwd' = After(bwd, "rune", ReverseReadRune(heap, bwd.rd))
    /\ UNCHANGED fwd /\ OtherIdle

RevRead ==
    /\ ~Reading(fwd) /\ Reading(bwd) /\ Kind(bwd.calls) = "byte"
    /\ bwd' = After(bwd, "byte", ReverseRead(heap, bwd.rd, plan.plen))
    /\ UNCHANGED fwd /\ OtherIdle

ReaderNext == FwdReadRune \/ FwdRead \/ RevReadRune \/ RevRead

ReaderSpec == ReaderInit /\ [][ReaderNext]_vars

----------------------------------------------------------------------------
(* Properties of the readers. *)

OnlyRunes == plan.k = 0 /\ plan.first = "byte"

OnlyBytes == plan.k = 0 /\ plan.first = "rune"

ReadText == IF rrope = NIL THEN <<>> ELSE String(heap, rrope)

RECURSIVE Width(_)
Width(log) == IF log = <<>> THEN 0 ELSE log[1].w + Width(Tail(log))

RECURSIVE Bytes(_)
Bytes(log) == IF log = <<>> THEN <<>> ELSE log[1].got \o Bytes(Tail(log))

Runes(log) == [i \in DOMAIN log |-> <<log[i].r, log[i].w>>]

Reverse(q) == [i \in 1..Len(q) |-> q[Len(q) - i + 1]]

\* The bytes of t from offset off, at most n of them.
From(t, off, n) == SubSeq(t, off + 1, Min(off + n, Len(t)))

\* C9. ReadRune on arbitrary bytes: a Reader read by ReadRune alone never
\* panics, returns each byte that does not begin a valid encoding as
\* (RuneError, 1) and each valid rune with its width, and at io.EOF the
\* widths returned add up to the length of the rope.
ReadRuneTotal ==
    (rrope # NIL /\ OnlyRunes) =>
        /\ ~fwd.panic
        /\ \A i \in DOMAIN fwd.log :
              LET d == DecodeRune(From(ReadText, Width(SubSeq(fwd.log, 1, i - 1)), UTFMax))
              IN  fwd.log[i].r = d.r /\ fwd.log[i].w = d.w
        /\ fwd.eof => Width(fwd.log) = Len(ReadText)

\* The bytes a Read returned are the bytes of the text at the offset the
\* reader had reached, also after a ReadRune.
ReadsInPlace(log, t) ==
    \A i \in DOMAIN log :
        log[i].kind = "byte" =>
            log[i].got = From(t, Width(SubSeq(log, 1, i - 1)), log[i].w)

\* C10. Reader symmetry: read to io.EOF, the bytes of the ReverseReader are
\* the reverse of the bytes of the Reader, its runes the reverse of the
\* Reader's runes, and a Read mixed with ReadRune calls returns the bytes at
\* the reader's place in the text.
ReaderSymmetry ==
    (rrope # NIL /\ fwd.eof /\ bwd.eof) =>
        /\ OnlyBytes => Bytes(bwd.log) = Reverse(Bytes(fwd.log))
        /\ OnlyRunes => Runes(bwd.log) = Reverse(Runes(fwd.log))
        /\ ReadsInPlace(fwd.log, ReadText)
        /\ ReadsInPlace(bwd.log, Reverse(ReadText))

----------------------------------------------------------------------------
(* Package re1: the matching machine.  A vm is a record; rr is the state of *)
(* the rope reader it reads runes from, and back tells that the reader is a *)
(* ReverseReader.  The free list of capture slices is left out: a slice is   *)
(* owned by one thread or by match at a time, and newMem overwrites every   *)
(* element of the slice it hands out.                                       *)

\* utf8.RuneLen: the number of bytes of the encoding of r, or -1.
RuneLen(r) ==
    IF r < 0 THEN -1
    ELSE IF r < 128 THEN 1
    ELSE IF r < 2048 THEN 2
    ELSE IF 55296 <= r /\ r <= 57343 THEN -1
    ELSE IF r < 65536 THEN 3
    ELSE IF r <= 1114111 THEN 4
    ELSE -1

\* read ignores the width ReadRune returns and advances at by RuneLen.
vmRead(h, v) ==
    Only({ [v EXCEPT !.at = IF v.n # eof THEN v.at + RuneLen(v.n) ELSE v.at,
                     !.c = v.n,
                     !.n = IF x.eof \/ x.panic THEN eof ELSE x.r,
                     !.rr = x.rd,
                     !.panic = x.panic]
           : x \in {IF v.back THEN ReverseReadRune(h, v.rr) ELSE ReadRune(h, v.rr)} })

newVM(h, re, rr, back) ==
    vmRead(h, [re |-> re, rr |-> rr, back |-> back, at |-> 0, lim |-> -1,
               c |-> eof, n |-> eof,
               seen |-> [i \in 1..Len(re.prog) |-> -1],
               cur |-> <<>>, next |-> <<>>,
               nomatch |-> TRUE, match |-> <<>>, panic |-> FALSE])

\* newMem(v, nil): 2*ncap elements, each -1.  newMem(v, init) is a copy of init.
newMem(v) == [i \in 1..(2 * v.re.ncap) |-> -1]

thread(pc, mem) == [pc |-> pc, mem |-> mem]

classAccepts(r, cl, neg) ==
    IF r = eof THEN FALSE
    ELSE IF \E i \in DOMAIN cl : cl[i][1] <= r /\ r <= cl[i][2] THEN ~neg
    ELSE neg

accepts(v, ins) ==
    CASE ins.op = any -> v.c # Rune["\n"] /\ v.c # eof
      [] ins.op \in {class, nclass} ->
            classAccepts(v.c, v.re.class[ins.arg + 1], ins.op = nclass)
      [] OTHER -> v.c = ins.op

setMatch(v, mem) ==
    CASE v.nomatch -> [v EXCEPT !.match = mem, !.nomatch = FALSE]
      [] mem[1] <= v.match[1] /\ mem[2] > v.match[2] -> [v EXCEPT !.match = mem]
      [] OTHER -> v

\* add and _add.  An index past the end of prog or of mem is a run-time panic.
RECURSIVE add(_, _, _)
add1(v, pc, mem) ==
    LET ins == v.re.prog[pc + 1]
    IN  CASE ins.op = jmp -> add(v, pc + ins.arg, mem)
          [] ins.op = fork ->
                Only({ add(v1, pc + ins.arg, mem) : v1 \in {add(v, pc + 1, mem)} })
          [] ins.op = rfork ->
                Only({ add(v1, pc + 1, mem) : v1 \in {add(v, pc + ins.arg, mem)} })
          [] ins.op = save ->
                IF ins.arg >= Len(mem) THEN [v EXCEPT !.panic = TRUE]
                ELSE add(v, pc + 1, [mem EXCEPT ![ins.arg + 1] = v.at])
          [] ins.op = bol ->
                IF v.c # eof /\ v.c # Rune["\n"] THEN v ELSE add(v, pc + 1, mem)
          [] ins.op = eol ->
                IF v.n # eof /\ v.n # Rune["\n"] THEN v ELSE add(v, pc + 1, mem)
          [] ins.op = match -> setMatch(v, mem)
          [] OTHER -> [v EXCEPT !.next = Append(v.next, thread(pc, mem))]

\* A slip of add: only the instructions that add goes on from are dropped
\* when seen at the same position; a thread is listed each time it is reached.
addSeenJumps(v, pc, mem) ==
    IF v.panic THEN v
    ELSE IF pc < 0 \/ pc >= Len(v.seen) THEN [v EXCEPT !.panic = TRUE]
    ELSE IF v.seen[pc + 1] = v.at
              /\ v.re.prog[pc + 1].op \in {jmp, fork, rfork, save, bol, eol, match}
         THEN v
    ELSE add1([v EXCEPT !.seen[pc + 1] = v.at], pc, mem)

add(v, pc, mem) ==
    IF v.panic THEN v
    ELSE IF pc < 0 \/ pc >= Len(v.seen) THEN [v EXCEPT !.panic = TRUE]
    ELSE IF v.seen[pc + 1] = v.at THEN v
    ELSE add1([v EXCEPT !.seen[pc + 1] = v.at], pc, mem)

step(v, pc, mem) ==
    IF ~accepts(v, v.re.prog[pc + 1]) THEN v ELSE add(v, pc + 1, mem)

\* for _, t := range v.cur { step(v, t.pc, t.mem) }
RECURSIVE steps(_, _)
steps(v, i) ==
    IF i > Len(v.cur) \/ v.panic THEN v
    ELSE Only({ steps(v1, i + 1) : v1 \in {step(v, v.cur[i].pc, v.cur[i].mem)} })

\* What Find returns: nil or the capture slice, or a panic.
Found(v) == [nil |-> v.nomatch, ms |-> v.match, panic |-> v.panic]

RECURSIVE run(_, _)
run(h, v0) ==
    Only({ IF v1.panic \/ (v1.lim >= 0 /\ v1.at >= v1.lim) THEN Found(v1)
           ELSE Only({ IF v2.panic THEN Found(v2)
                       ELSE Only({ IF v3.panic \/ v3.c = eof
                                        \/ (~v3.nomatch /\ Len(v3.next) = 0)
                                   THEN Found(v3)
                                   ELSE run(h, v3)
                                   : v3 \in {steps([v2 EXCEPT !.cur = v2.next,
                                                              !.next = <<>>], 1)} })
                       : v2 \in {vmRead(h, v1)} })
           : v1 \in {IF v0.nomatch THEN add(v0, 0, newMem(v0)) ELSE v0} })

\* Find of a RuneReader over the rope p.
Find(h, re, p) ==
    Only({ IF v.panic THEN Found(v) ELSE run(h, v)
           : v \in {newVM(h, re, NewReader(p), FALSE)} })

\* prevRune and nextRune: the rune before, and the rune at, byte i of ro.
prevRune(h, ro, i) ==
    Only({ IF sl.panic THEN [r |-> eof, panic |-> TRUE]
           ELSE Only({ [r |-> IF x.eof THEN eof ELSE x.r, panic |-> x.panic]
                       : x \in {ReverseReadRune(sl.h, NewReader(sl.p))} })
           : sl \in {Slice(h, ro, 0, i)} })

nextRune(h, ro, i) ==
    Only({ IF sl.panic THEN [r |-> eof, panic |-> TRUE]
           ELSE Only({ [r |-> IF x.eof THEN eof ELSE x.r, panic |-> x.panic]
                       : x \in {ReadRune(sl.h, NewReader(sl.p))} })
           : sl \in {Slice(h, ro, i, RopeLen(h, ro))} })

Panics == [nil |-> TRUE, ms |-> <<>>, panic |-> TRUE]

FindInRope(h, re, ro, s, e) ==
    Only({ IF sl.panic THEN Panics
           ELSE Only({ IF v.panic THEN Panics
                       ELSE Only({ IF c.panic THEN Panics
                                   ELSE run(sl.h, [v EXCEPT !.c = c.r, !.at = s, !.lim = e])
                                   : c \in {prevRune(h, ro, s)} })
                       : v \in {newVM(sl.h, re, NewReader(sl.p), FALSE)} })
           : sl \in {Slice(h, ro, s, RopeLen(h, ro))} })

\* for i := 0; i < len(ms); i += 2 { if ms[i] >= 0 { swap and subtract from e } }
forward(ms, e) ==
    [i \in DOMAIN ms |->
        IF i % 2 = 1
        THEN IF ms[i] >= 0 THEN e - ms[i + 1] ELSE ms[i]
        ELSE IF ms[i - 1] >= 0 THEN e - ms[i - 1] ELSE ms[i]]

FindReverseInRope(h, re, ro, s, e) ==
    Only({ IF sl.panic THEN Panics
           ELSE Only({ IF v.panic THEN Panics
                       ELSE Only({ IF c.panic THEN Panics
                                   ELSE Only({ IF f.panic \/ f.nil THEN f
                                               ELSE [f EXCEPT !.ms = forward(f.ms, e)]
                                               : f \in {run(sl.h, [v EXCEPT !.c = c.r,
                                                                            !.lim = e - s])} })
                                   : c \in {nextRune(h, ro, e)} })
                       : v \in {newVM(sl.h, re, NewReader(sl.p), TRUE)} })
           : sl \in {Slice(h, ro, 0, e)} })

\* union2 is catProg without renumbering the captures and without the
\* reverse: fork, left, jmp, right, with the class indices of right
\* shifted, and the capture count the larger of the two.
union2(left, right) ==
    Re(<<Instr(fork, Len(left.prog) + 2)>> \o left.prog
          \o <<Instr(jmp, Len(right.prog) + 1)>>
          \o [i \in DOMAIN right.prog |->
                 IF right.prog[i].op \in {class, nclass}
                 THEN Instr(right.prog[i].op, right.prog[i].arg + Len(left.class))
                 ELSE right.prog[i]],
       IF right.ncap > left.ncap THEN right.ncap ELSE left.ncap,
       left.class \o right.class)

\* for _, right := range res[1:] { left = union2(left, right) }
RECURSIVE unionFrom(_, _, _)
unionFrom(left, res, i) ==
    IF i > Len(res) THEN left
    ELSE Only({ unionFrom(l, res, i + 1) : l \in {union2(left, res[i])} })

\* Union of no regexps is nil, of one regexp is that regexp.
Union(res) ==
    CASE Len(res) = 0 -> NilRe
      [] Len(res) = 1 -> res[1]
      [] OTHER -> unionFrom(res[1], res, 2)

----------------------------------------------------------------------------
(* The caller of the matching machine: it compiles a pattern, builds a     *)
(* rope, and calls Find, FindInRope or FindReverseInRope once.             *)

\* Two letters, the newline, and a continuation byte, which on its own is
\* not the encoding of a rune.
MatchBytes == {Rune["a"], Rune["b"], Rune["\n"], 144}

MatchTexts == UNION { [1..n -> MatchBytes] : n \in 0..MaxText }

\* The patterns matched, as pattern text.
MatchPats ==
    { <<>>, <<"a">>, <<"a", "*">>, <<"a", "b">>, <<"a", "|", "a", "b">>,
      <<"a", "b", "|", "a">>, <<"^", "a">>, <<"a", "$">>, <<"^">>, <<"$">>,
      <<".">>, <<".", "*">>, <<"a", "*", "b">>, <<"(", "a", "|", "b", ")", "*">>,
      <<"(", "a", ")", "|", "b">>, <<"[", "^", "a", "]">>, <<"a", "+">>,
      <<"b", "?", "a">>, <<"(", "a", "*", ")", "(", "b", ")">>, <<"^", "b", "*", "$">> }

PatText(p) == [i \in DOMAIN p |-> Rune[p[i]]]

\* The ropes searched: the text as one leaf, and the text cut in two leaves
\* with the pad after it.
MatchShapes(t) ==
    { New(<<>>, t) }
    \cup { LET a == New(<<>>, SubSeq(t, 1, i))
               b == New(a.h, SubSeq(t, i + 1, Len(t)) \o Pad(smallSize))
           IN  RopeAppend(b.h, a.p, b.p) : i \in 1..Len(t) }

Call(name, s, e, f) ==
    [call |-> name, s |-> s, e |-> e, nil |-> f.nil, ms |-> f.ms, panic |-> f.panic]

MatchInit ==
    /\ \E p \in MatchPats : pat = PatText(p)
    /\ popts \in [Reverse : BOOLEAN, Delimiter : {0}]
    /\ ppc = "text"
    /\ pres = Ret(NilRe, <<>>, "")
    /\ \E t \in MatchTexts : \E sh \in MatchShapes(t) :
          /\ heap = sh.h /\ rrope = sh.p
          /\ plan = [first |-> "byte", k |-> 0, plen |-> Len(t)]
    /\ fwd = Side(NIL) /\ bwd = Side(NIL)
    /\ found = [call |-> "none"] /\ ran = [cmd |-> "none"]
    /\ RopeIdle /\ EditIdle

Compiled == ppc = "compiled" /\ ~pres.panic /\ pres.err = "" /\ found.call = "none"

\* The text searched: the first plan.plen bytes of the rope.
MatchText == SubSeq(String(heap, rrope), 1, plan.plen)

MatchIdle ==
    UNCHANGED <<heap, ran>> /\ UNCHANGED ropeVars /\ UNCHANGED editVars
        /\ UNCHANGED parseVars /\ UNCHANGED readVars

DoFind ==
    /\ Compiled /\ ~popts.Reverse
    /\ found' = Call("Find", 0, RopeLen(heap, rrope), Find(heap, pres.re, rrope))
    /\ MatchIdle

DoFindInRope ==
    /\ Compiled /\ ~popts.Reverse
    /\ \E s \in 0..plan.plen : \E e \in s..plan.plen :
          found' = Call("FindInRope", s, e, FindInRope(heap, pres.re, rrope, s, e))
    /\ MatchIdle

DoFindReverseInRope ==
    /\ Compiled /\ popts.Reverse
    /\ \E s \in 0..plan.plen : \E e \in s..plan.plen :
          found' = Call("FindReverseInRope", s, e,
                        FindReverseInRope(heap, pres.re, rrope, s, e))
    /\ MatchIdle

\* The patterns joined to the compiled one in a union.
UnionPats == { <<"a">>, <<"(", "a", ")", "b">>, <<"b", "*">> }

Compiles(p) == re1New(PatText(p), [Reverse |-> FALSE, Delimiter |-> 0]).re

\* The caller takes the union of no regexp, or of the compiled regexp and
\* up to two more, and calls Find on it.
DoUnion ==
    /\ Compiled /\ ~popts.Reverse
    /\ \E res \in {<<>>} \cup { <<pres.re>> \o [i \in DOMAIN ps |-> Compiles(ps[i])]
                                 : ps \in UNION { [1..n -> UnionPats] : n \in 0..2 } } :
          \E u \in {Union(res)} :
             found' = [Call("Union", 0, RopeLen(heap, rrope),
                            IF u.nil THEN [nil |-> TRUE, ms |-> <<>>, panic |-> FALSE]
                            ELSE Find(heap, u, rrope))
                       EXCEPT !.call = "Union"] @@ [res |-> res, re |-> u]
    /\ MatchIdle

MatchNext == Compile \/ DoFind \/ DoFindInRope \/ DoFindReverseInRope \/ DoUnion

MatchSpec == MatchInit /\ [][MatchNext]_vars

----------------------------------------------------------------------------
(* What it is for a program to match a stretch of a text, without the      *)
(* machine: the positions a program reaches by walking the text from a     *)
(* start.  A forward walk consumes the rune after its position, a backward *)
(* walk the rune before it.                                                *)

\* The rune after byte offset i of t and its width, eof at the end.
RuneAt(t, i) ==
    IF i >= Len(t) THEN [r |-> eof, w |-> 0]
    ELSE DecodeRune(SubSeq(t, i + 1, Min(Len(t), i + UTFMax)))

\* The rune before byte offset i of t and its width, eof at the start.
RuneBefore(t, i) ==
    IF i <= 0 THEN [r |-> eof, w |-> 0]
    ELSE DecodeLastRune(SubSeq(t, 1, i))

LineEdge(x) == x.r = eof \/ x.r = Rune["\n"]

\* The configurations one instruction away from <<pc, i>>.
Succ(re, t, back, cf) ==
    LET pc == cf[1]
        i == cf[2]
        ins == re.prog[pc + 1]
        ahead == IF back THEN RuneBefore(t, i) ELSE RuneAt(t, i)
        behind == IF back THEN RuneAt(t, i) ELSE RuneBefore(t, i)
        j == IF back THEN i - ahead.w ELSE i + ahead.w
    IN  CASE ins.op = match -> {}
          [] ins.op = jmp -> {<<pc + ins.arg, i>>}
          [] ins.op \in {fork, rfork} -> {<<pc + 1, i>>, <<pc + ins.arg, i>>}
          [] ins.op = save -> {<<pc + 1, i>>}
          [] ins.op = bol -> IF LineEdge(behind) THEN {<<pc + 1, i>>} ELSE {}
          [] ins.op = eol -> IF LineEdge(ahead) THEN {<<pc + 1, i>>} ELSE {}
          [] ins.op = any ->
                IF ahead.r # eof /\ ahead.r # Rune["\n"] THEN {<<pc + 1, j>>} ELSE {}
          [] ins.op \in {class, nclass} ->
                IF classAccepts(ahead.r, re.class[ins.arg + 1], ins.op = nclass)
                THEN {<<pc + 1, j>>} ELSE {}
          [] OTHER -> IF ahead.r = ins.op THEN {<<pc + 1, j>>} ELSE {}

RECURSIVE Walk(_, _, _, _)
Walk(re, t, back, cfs) ==
    LET more == cfs \cup UNION { Succ(re, t, back, cf) : cf \in cfs }
    IN  IF more = cfs THEN cfs ELSE Walk(re, t, back, more)

\* The offsets at which a match that starts the walk at offset i ends it.
Ends2(re, t, back, i) ==
    { cf[2] : cf \in { c \in Walk(re, t, back, {<<0, i>>}) : re.prog[c[1] + 1].op = match } }

\* The matches [i, j) of the program within the window [s, e).
Matches(re, t, s, e) ==
    { <<i, j>> \in (s..e) \X (s..e) : i <= j /\ j \in Ends2(re, t, FALSE, i) }

MatchesReverse(re, t, s, e) ==
    { <<i, j>> \in (s..e) \X (s..e) : i <= j /\ i \in Ends2(re, t, TRUE, j) }

LeftmostLongest(ms) ==
    CHOOSE m \in ms : \A o \in ms : m[1] < o[1] \/ (m[1] = o[1] /\ m[2] >= o[2])

RightmostLongest(ms) ==
    CHOOSE m \in ms : \A o \in ms : m[2] > o[2] \/ (m[2] = o[2] /\ m[1] <= o[1])

\* C11. Leftmost-longest matching in a window: FindInRope(ro, s, e) returns
\* nil exactly when no stretch [i, j) of the window matches, and otherwise
\* the match with the smallest start and, among those, the largest end.
FindInRopeLaw ==
    found.call = "FindInRope" =>
        LET ms == Matches(pres.re, String(heap, rrope), found.s, found.e)
        IN  /\ ~found.panic
            /\ found.nil <=> ms = {}
            /\ ~found.nil => <<found.ms[1], found.ms[2]>> = LeftmostLongest(ms)

\* Every capture pair of a result is a range start <= end or (-1, -1).
ForwardPairs(ms) ==
    \A k \in 1..(Len(ms) \div 2) :
        \/ ms[2 * k - 1] = -1 /\ ms[2 * k] = -1
        \/ 0 <= ms[2 * k - 1] /\ ms[2 * k - 1] <= ms[2 * k]

\* C12. Reverse matching: FindReverseInRope(ro, s, e) returns nil exactly
\* when nothing in the window matches, and otherwise the match with the
\* greatest end and, among those, the smallest start, in forward offsets,
\* with every capture pair a forward range or (-1, -1).
FindReverseInRopeLaw ==
    found.call = "FindReverseInRope" =>
        LET ms == MatchesReverse(pres.re, String(heap, rrope), found.s, found.e)
        IN  /\ ~found.panic
            /\ found.nil <=> ms = {}
            /\ ~found.nil =>
                  /\ <<found.ms[1], found.ms[2]>> = RightmostLongest(ms)
                  /\ ForwardPairs(found.ms)

\* C13. Union: Find of the union of r0..r(n-1) returns nil exactly when no
\* component matches, and otherwise the leftmost-longest match over all
\* components with the captures of the component that produced it, the
\* slots it does not have -1, followed by one element, the ID of that
\* component; the union of no regexps is nil.
UnionLaw ==
    found.call = "Union" =>
        IF Len(found.res) = 0 THEN found.re.nil
        ELSE LET t == String(heap, rrope)
                 n == Len(t)
                 all == UNION { Matches(found.res[k], t, 0, n) : k \in DOMAIN found.res }
                 ncap == found.re.ncap
             IN  /\ ~found.panic
                 /\ found.nil <=> all = {}
                 /\ ~found.nil =>
                       \E k \in DOMAIN found.res :
                          LET own == Find(heap, found.res[k], rrope)
                          IN  /\ ~own.nil
                              /\ <<own.ms[1], own.ms[2]>> = LeftmostLongest(all)
                              /\ Len(found.ms) = 2 * ncap + 1
                              /\ \A i \in 1..(2 * ncap) :
                                    found.ms[i] = IF i <= Len(own.ms) THEN own.ms[i] ELSE -1
                              /\ found.ms[2 * ncap + 1] = k - 1

----------------------------------------------------------------------------
(* Where a pattern text ends. *)

\* The index of the first newline or delimiter d in t, from index i on, that
\* is not escaped by a backslash and not inside a character class; 0 when
\* there is none.  cls tells that index i is inside a character class.
RECURSIVE Terminator(_, _, _, _)
Terminator(t, d, i, cls) ==
    IF i > Len(t) THEN 0
    ELSE IF t[i] = Rune["\\"] THEN Terminator(t, d, i + 2, cls)
    ELSE IF cls THEN Terminator(t, d, i + 1, t[i] # Rune["]"])
    ELSE IF t[i] = Rune["\n"] \/ t[i] = d THEN i
    ELSE Terminator(t, d, i + 1, t[i] = Rune["["])

\* C14. Pattern termination: New ends the pattern at the first newline or
\* delimiter that is not escaped and not inside a character class, compiles
\* the text before it, and returns exactly the text after it, empty when
\* there is no terminator.
PatternTermination ==
    ppc = "compiled" =>
        LET k == Terminator(pat, popts.Delimiter, 1, FALSE)
            want == re1New(IF k = 0 THEN pat ELSE SubSeq(pat, 1, k - 1), popts)
            rest == IF k = 0 THEN <<>> ELSE SubSeq(pat, k + 1, Len(pat))
        IN  ~want.panic =>
               /\ ~pres.panic
               /\ pres.err = want.err
               /\ want.err = "" => (pres.re = want.re /\ pres.t = rest)

----------------------------------------------------------------------------
(* Package edit: the commands.  A command is a record: op is its letter, a  *)
(* the range its address resolved to (<<-1, -1>> when it has none), t the   *)
(* text that follows the letter where the command parses it itself (the     *)
(* text of a, c, i; the number, pattern, template and flag of s; the        *)
(* pattern of x, y), b the range the destination address of m resolved to,  *)
(* and sub the commands nested in it (the command of x, y; the lines of {). *)
(* Texts are of one-byte runes, so a rune is a byte.                        *)

Cmd(op, a, t, b, nested) == [op |-> op, a |-> a, t |-> t, b |-> b, sub |-> nested]

NoAddr == <<-1, -1>>

\* What a command function returns: the diffs, the rest of the text and the
\* error, or a panic; h is the heap with the ropes of the diffs.
Done(h, dd, t) == [h |-> h, ds |-> dd, t |-> t, err |-> "", panic |-> FALSE]

Fails(h, err) == [h |-> h, ds |-> <<>>, t |-> <<>>, err |-> err, panic |-> FALSE]

Crash(h) == [h |-> h, ds |-> <<>>, t |-> <<>>, err |-> "", panic |-> TRUE]

editNext(t) == IF Len(t) = 0 THEN [r |-> eof, t |-> <<>>] ELSE [r |-> Head(t), t |-> Tail(t)]

\* unicode.IsSpace, on the runes of the model.
IsSpace(r) == r \in {Rune["\n"], Rune["\t"], 32}

RECURSIVE trimSpaceLeft(_)
trimSpaceLeft(t) ==
    IF Len(t) > 0 /\ IsSpace(Head(t)) THEN trimSpaceLeft(Tail(t)) ELSE t

\* strings.TrimLeftFunc(t0, IsSpace and not '\n')
RECURSIVE trimBlankLeft(_)
trimBlankLeft(t) ==
    IF Len(t) > 0 /\ IsSpace(Head(t)) /\ Head(t) # Rune["\n"]
    THEN trimBlankLeft(Tail(t)) ELSE t

\* number: the decimal number t begins with, 1 when it begins with none.
RECURSIVE digits(_, _)
digits(t, n) ==
    IF Len(t) > 0 /\ 48 <= Head(t) /\ Head(t) <= 57
    THEN digits(Tail(t), 10 * n + (Head(t) - 48))
    ELSE [n |-> n, t |-> t]

number(t) ==
    IF Len(t) > 0 /\ 48 <= Head(t) /\ Head(t) <= 57 THEN digits(t, 0)
    ELSE [n |-> 1, t |-> t]

editEsc(r) ==
    CASE r = eof -> Rune["\\"]
      [] r = Rune["n"] \/ r = Rune["\n"] -> Rune["\n"]
      [] r = Rune["t"] -> Rune["\t"]
      [] OTHER -> r

\* The closure sub of the function sub: the text of capture n of ms.
NoSub == [on |-> FALSE, h |-> <<>>, ro |-> NIL, ms |-> <<>>]

subText(sb, n) ==
    LET i == n * 2
    IN  IF i >= Len(sb.ms) THEN [s |-> <<>>, panic |-> FALSE]
        ELSE IF sb.ms[i + 1] < 0 THEN [s |-> <<>>, panic |-> FALSE]
        ELSE IF i + 1 >= Len(sb.ms) THEN [s |-> <<>>, panic |-> TRUE]
        ELSE Only({ IF sl.panic THEN [s |-> <<>>, panic |-> TRUE]
                    ELSE [s |-> String(sl.h, sl.p), panic |-> FALSE]
                    : sl \in {Slice(sb.h, sb.ro, sb.ms[i + 1], sb.ms[i + 2])} })

\* parseDelimited, with the text written so far.
RECURSIVE parseDelimitedTo(_, _, _, _)
parseDelimitedTo(t, sb, delim, s) ==
    LET n == editNext(t)
        m == editNext(n.t)
    IN  IF n.r = eof \/ n.r = Rune["\n"] \/ n.r = delim
        THEN [s |-> s, t |-> n.t, panic |-> FALSE]
        ELSE IF n.r = Rune["\\"] /\ sb.on /\ 48 <= m.r /\ m.r <= 57
        THEN Only({ IF x.panic THEN [s |-> <<>>, t |-> <<>>, panic |-> TRUE]
                    ELSE parseDelimitedTo(m.t, sb, delim, s \o x.s)
                    : x \in {subText(sb, m.r - 48)} })
        ELSE IF n.r = Rune["\\"]
        THEN parseDelimitedTo(m.t, sb, delim, Append(s, editEsc(m.r)))
        ELSE parseDelimitedTo(n.t, sb, delim, Append(s, n.r))

parseDelimited(t, sb, delim) == parseDelimitedTo(t, sb, delim, <<>>)

\* parseLines, with the text written so far, the count i and the flag nl.
RECURSIVE parseLinesTo(_, _, _, _)
parseLinesTo(t0, s, i, nl) ==
    LET n == editNext(t0)
        t == n.t
        s1 == IF nl /\ i > 0 THEN Append(s, Rune["\n"]) ELSE s
    IN  IF n.r = eof THEN [s |-> s1, t |-> <<>>, panic |-> FALSE]
        ELSE IF nl /\ n.r = Rune["."] /\ Len(t) = 0 THEN [s |-> s, t |-> t, panic |-> FALSE]
        ELSE IF nl /\ n.r = Rune["."] /\ Head(t) = Rune["\n"]
        THEN [s |-> s, t |-> Tail(t), panic |-> FALSE]
        ELSE IF n.r = Rune["\n"] THEN parseLinesTo(t, s1, i + 1, TRUE)
        ELSE parseLinesTo(t, Append(s1, n.r), i + 1, FALSE)

parseLines(t) == parseLinesTo(t, <<>>, 0, TRUE)

parseText(t0) ==
    LET t == trimBlankLeft(t0)
    IN  IF Len(t) = 0 THEN [s |-> <<>>, t |-> <<>>, panic |-> FALSE]
        ELSE IF Head(t) = Rune["\n"] THEN parseLines(Tail(t))
        ELSE parseDelimited(Tail(t), NoSub, Head(t))

\* A slip of change: i keeps the whole range, as c does.
changeInsertsOver(h, a, t, op) ==
    LET at == IF op = "a" THEN <<a[2], a[2]>> ELSE a
        x == IF op # "d" THEN parseText(t) ELSE [s |-> <<>>, t |-> t, panic |-> FALSE]
        n == New(h, x.s)
    IN  Done(n.h, <<Diff(at[1], at[2], n.p)>>, x.t)

\* change: a, c, d, i.
change(h, a, t, op) ==
    LET at == CASE op = "a" -> <<a[2], a[2]>>
                [] op = "i" -> <<a[1], a[1]>>
                [] OTHER -> a
        x == IF op # "d" THEN parseText(t) ELSE [s |-> <<>>, t |-> t, panic |-> FALSE]
        n == New(h, x.s)
    IN  Done(n.h, <<Diff(at[1], at[2], n.p)>>, x.t)

\* move: b is what addr returned for the destination.
move(h, a, b, ro) ==
    IF b[1] < 0 THEN Fails(h, "expected address")
    ELSE IF a[1] = a[2] THEN Done(h, <<>>, <<>>)
    ELSE IF a[1] <= b[2] /\ b[2] < a[2] THEN Done(h, <<>>, <<>>)
    ELSE LET b1 == IF a[2] < b[2] THEN b[2] - (a[2] - a[1]) ELSE b[2]
         IN  Only({ IF sl.panic THEN Crash(sl.h)
                    ELSE Done(sl.h, <<Diff(a[1], a[2], NIL), Diff(b1, b1, sl.p)>>, <<>>)
                    : sl \in {Slice(h, ro, a[1], a[2])} })

\* parseRegexp
parseRegexp(t) ==
    LET d == editNext(trimSpaceLeft(t))
    IN  IF d.r = eof THEN Ret(NilRe, <<>>, "expected regular expression")
        ELSE re1New(d.t, [Reverse |-> FALSE, Delimiter |-> d.r])

\* The loop of sub.  ms[:len(ms)-1] drops the last element of what
\* FindInRope returned; an index past the end of ms is a panic.
RECURSIVE subLoop(_, _, _, _, _, _, _, _, _, _, _)
subLoop(h, ro, re, tmpl, delim, global, a0, a1, n, dd, adj) ==
    IF a0 > a1 THEN [h |-> h, ds |-> dd, panic |-> FALSE]
    ELSE Only({
        IF f.panic THEN [h |-> h, ds |-> <<>>, panic |-> TRUE]
        ELSE IF f.nil THEN [h |-> h, ds |-> dd, panic |-> FALSE]
        ELSE LET ms == IF Len(f.ms) > 0 THEN SubSeq(f.ms, 1, Len(f.ms) - 1) ELSE f.ms
             IN  IF Len(ms) < 2 THEN [h |-> h, ds |-> <<>>, panic |-> TRUE]
                 ELSE LET b0 == IF ms[2] = ms[1] THEN a0 + 1 ELSE ms[2]
                      IN  IF n - 1 > 0
                          THEN subLoop(h, ro, re, tmpl, delim, global, b0, a1, n - 1, dd, adj)
                          ELSE Only({
                              IF s.panic THEN [h |-> h, ds |-> <<>>, panic |-> TRUE]
                              ELSE LET x == New(h, s.s)
                                       dd1 == Append(dd, Diff(ms[1] - adj, ms[2] - adj, x.p))
                                   IN  IF ~global THEN [h |-> x.h, ds |-> dd1, panic |-> FALSE]
                                       ELSE subLoop(x.h, ro, re, tmpl, delim, global, b0, a1,
                                                    n - 1, dd1,
                                                    adj + (ms[2] - ms[1]) - Len(s.s))
                              : s \in {parseDelimited(tmpl,
                                          [on |-> TRUE, h |-> h, ro |-> ro, ms |-> ms], delim)} })
        : f \in {FindInRope(h, re, ro, a0, a1)} })

\* sub: s[N]/re/tmpl/[g]
sub(h, a, t0, ro) ==
    LET nm == number(trimSpaceLeft(t0))
        delim == editNext(trimSpaceLeft(nm.t)).r
    IN  Only({
        IF r.panic THEN Crash(h)
        ELSE IF r.err # "" THEN Fails(h, r.err)
        ELSE LET tmpl == r.t
                 t1 == parseDelimited(tmpl, NoSub, delim).t
                 g == editNext(trimSpaceLeft(t1))
                 global == g.r = Rune["g"]
                 t2 == IF global THEN g.t ELSE t1
             IN  Only({ IF x.panic THEN Crash(x.h)
                        ELSE IF Len(x.ds) = 0 THEN Fails(x.h, "no match")
                        ELSE Done(x.h, x.ds, t2)
                        : x \in {subLoop(h, ro, r.re, tmpl, delim, global,
                                         a[1], a[2], nm.n, <<>>, 0)} })
        : r \in {parseRegexp(nm.t)} })

\* The two loops of appendAdjusted.  at becomes atNext, which is 0 when ds
\* is empty.  d.Text.Len() of a nil Text is a nil dereference.
RECURSIVE outOfOrder(_, _)
outOfOrder(at, dd) ==
    Len(dd) > 0 /\ (Head(dd).At[1] < at \/ outOfOrder(at, Tail(dd)))

RECURSIVE adjusted(_, _, _)
adjusted(h, adj, dd) ==
    IF Len(dd) = 0 THEN adj
    ELSE adjusted(h, adj + RopeLen(h, Head(dd).Text) - (Head(dd).At[2] - Head(dd).At[1]),
                  Tail(dd))

appendAdjusted(h, at, adj, diffs, dd) ==
    IF outOfOrder(at, dd)
    THEN [at |-> 0, adj |-> 0, ds |-> <<>>, err |-> "out of order", panic |-> FALSE]
    ELSE IF \E i \in DOMAIN dd : dd[i].Text = NIL
    THEN [at |-> 0, adj |-> 0, ds |-> <<>>, err |-> "", panic |-> TRUE]
    ELSE [at |-> IF Len(dd) = 0 THEN 0 ELSE dd[Len(dd)].At[2],
          adj |-> adjusted(h, adj, dd),
          ds |-> diffs \o [i \in DOMAIN dd |->
                              Diff(dd[i].At[1] + adj, dd[i].At[2] + adj, dd[i].Text)],
          err |-> "", panic |-> FALSE]

RECURSIVE Edit(_, _, _, _)

\* The loop of loop: one run of cmd for each match (x), or for the gap
\* before each match (y).
RECURSIVE loopFrom(_, _, _, _, _, _, _, _, _, _, _)
loopFrom(h, ro, re, op, cmd, a0, a1, prev, at, adj, diffs) ==
    IF a0 > a1
    THEN [h |-> h, ds |-> diffs, prev |-> prev, at |-> at, adj |-> adj,
          err |-> "", panic |-> FALSE]
    ELSE Only({
        IF f.panic
        THEN [h |-> h, ds |-> <<>>, prev |-> prev, at |-> at, adj |-> adj,
              err |-> "", panic |-> TRUE]
        ELSE IF f.nil
        THEN [h |-> h, ds |-> diffs, prev |-> prev, at |-> at, adj |-> adj,
              err |-> "", panic |-> FALSE]
        ELSE LET ms == f.ms
                 b0 == IF ms[2] = ms[1] THEN a0 + 1 ELSE ms[2]
                 dt == IF op = "y" THEN <<prev, ms[1]>> ELSE <<ms[1], ms[2]>>
                 prev1 == IF op = "y" THEN ms[2] ELSE prev
             IN  Only({
                 IF e.panic \/ e.err # ""
                 THEN [h |-> e.h, ds |-> <<>>, prev |-> prev1, at |-> at, adj |-> adj,
                       err |-> e.err, panic |-> e.panic]
                 ELSE Only({
                     IF x.panic \/ x.err # ""
                     THEN [h |-> e.h, ds |-> <<>>, prev |-> prev1, at |-> at, adj |-> adj,
                           err |-> x.err, panic |-> x.panic]
                     ELSE loopFrom(e.h, ro, re, op, cmd, b0, a1, prev1, x.at, x.adj, x.ds)
                     : x \in {appendAdjusted(e.h, at, adj, diffs, e.ds)} })
                 : e \in {Edit(h, dt, cmd, ro)} })
        : f \in {FindInRope(h, re, ro, a0, a1)} })

\* loop: x/re/cmd and y/re/cmd
loop(h, a, t, op, cmd, ro) ==
    Only({
        IF r.panic THEN Crash(h)
        ELSE IF r.err # "" THEN Fails(h, r.err)
        ELSE Only({
            IF l.panic THEN Crash(l.h)
            ELSE IF l.err # "" THEN Fails(l.h, l.err)
            ELSE IF op # "y" THEN Done(l.h, l.ds, <<>>)
            ELSE Only({
                IF e.panic THEN Crash(e.h)
                ELSE IF e.err # "" THEN Fails(e.h, e.err)
                ELSE Only({ IF x.panic THEN Crash(e.h)
                            ELSE IF x.err # "" THEN Fails(e.h, x.err)
                            ELSE Done(e.h, x.ds, <<>>)
                            : x \in {appendAdjusted(e.h, l.at, l.adj, l.ds, e.ds)} })
                : e \in {Edit(l.h, <<l.prev, a[2]>>, cmd, ro)} })
            : l \in {loopFrom(h, ro, r.re, op, cmd, a[1], a[2], a[1], -1, 0, <<>>)} })
        : r \in {parseRegexp(t)} })

\* The loop of seq from its i-th command on.
RECURSIVE seqFrom(_, _, _, _, _, _, _, _)
seqFrom(h, ro, a, cmds, i, at, adj, diffs) ==
    IF i > Len(cmds) THEN Done(h, diffs, <<>>)
    ELSE Only({
        IF e.panic THEN Crash(e.h)
        ELSE IF e.err # "" THEN Fails(e.h, e.err)
        ELSE Only({ IF x.panic THEN Crash(e.h)
                    ELSE IF x.err # "" THEN Fails(e.h, x.err)
                    ELSE seqFrom(e.h, ro, a, cmds, i + 1, x.at, x.adj, x.ds)
                    : x \in {appendAdjusted(e.h, at, adj, diffs, e.ds)} })
        : e \in {Edit(h, a, cmds[i], ro)} })

\* seq: { cmd ... }
seq(h, a, cmds, ro) == seqFrom(h, ro, a, cmds, 1, -1, 0, <<>>)

\* edit: the address, then the command by its letter.  p writes
\* Slice(ro, a[0], a[1]) and returns no diffs.
edit(h, dt, c, ro) ==
    LET a == IF c.a[1] < 0 THEN dt ELSE c.a
    IN  CASE c.op \in {"a", "c", "d", "i"} -> change(h, a, c.t, c.op)
          [] c.op = "m" -> move(h, a, c.b, ro)
          [] c.op = "p" ->
                Only({ IF sl.panic THEN Crash(h) ELSE Done(h, <<>>, c.t)
                       : sl \in {Slice(h, ro, a[1], a[2])} })
          [] c.op = "s" -> sub(h, a, c.t, ro)
          [] c.op \in {"x", "y"} -> loop(h, a, c.t, c.op, c.sub[1], ro)
          [] c.op = "{" -> seq(h, a, c.sub, ro)
          [] OTHER -> Fails(h, "bad command")

\* Edit: edit, and nothing but space after the command.
Edit(h, dt, c, ro) ==
    Only({ IF e.panic \/ e.err # "" THEN e
           ELSE IF Len(trimSpaceLeft(e.t)) # 0 THEN Fails(e.h, "expected end-of-input")
           ELSE e
           : e \in {edit(h, dt, c, ro)} })

----------------------------------------------------------------------------
(* The caller of the commands: it holds a document and a dot, runs one     *)
(* command with Edit, and applies the diffs Edit returned to the document. *)

DocBytes == {Rune["a"], Rune["b"], Rune["\n"]}

DocTexts == UNION { [1..n -> DocBytes] : n \in 0..MaxDoc }

\* The ranges of a text of n bytes.
Spans(n) == { <<i, j>> \in (0..n) \X (0..n) : i <= j }

\* The texts that follow a, c and i: delimited, delimited with an escape,
\* unterminated, none, and lines ended by a dot.
ChangeTexts ==
    { PatText(p) : p \in { <<"/", "b", "/">>, <<"/", "\\", "n", "b", "/">>, <<"/", "a", "b">>,
                           <<>>, <<"\n", "b", "\n", "a", "\n", ".", "\n">> } }

ChangeCmds(n) ==
    { Cmd(op, a, t, NoAddr, <<>>) :
        op \in {"a", "c", "i"}, a \in Spans(n) \cup {NoAddr}, t \in ChangeTexts }
    \cup { Cmd("d", a, <<>>, NoAddr, <<>>) : a \in Spans(n) \cup {NoAddr} }

\* m with every source and every destination, and with no destination.
MoveCmds(n) ==
    { Cmd("m", a, <<>>, b, <<>>) :
        a \in Spans(n) \cup {NoAddr}, b \in Spans(n) \cup {NoAddr} }

\* What follows s: the number, the pattern, the template and the flag.
SubTexts ==
    { PatText(p) : p \in {
        <<"/", "a", "/", "b", "/">>,
        <<"/", "a", "/", "b", "b", "/", "g">>,
        <<"2", "/", "a", "/", "/">>,
        <<"2", "/", "a", "/", "b", "/", "g">>,
        <<"0", "/", "b", "/", "\\", "0", "\\", "0", "/">>,
        <<"/", "(", "a", ")", "/", "b", "/">>,
        <<"/", "(", "a", ")", "b", "/", "\\", "1", "/", "g">>,
        <<"/", "(", "a", ")", "|", "b", "/", "\\", "1", "\\", "2", "a", "/", "g">>,
        <<"/", "a", "*", "/", "b", "/", "g">>,
        <<"/", "^", "/", "\\", "n", "/", "g">> } }

SubCmds(n) ==
    { Cmd("s", a, t, NoAddr, <<>>) : a \in Spans(n) \cup {NoAddr}, t \in SubTexts }

\* The commands run by a loop, each on its own dot: c, d, i, a, a loop that
\* makes two diffs of a dot, and a substitution.
Inner ==
    { Cmd("c", NoAddr, PatText(<<"/", "b", "b", "/">>), NoAddr, <<>>),
      Cmd("d", NoAddr, <<>>, NoAddr, <<>>),
      Cmd("i", NoAddr, PatText(<<"/", "b", "/">>), NoAddr, <<>>),
      Cmd("a", NoAddr, PatText(<<"/", "b", "/">>), NoAddr, <<>>),
      Cmd("x", NoAddr, PatText(<<"/", "a", "*", "/">>), NoAddr,
          << Cmd("c", NoAddr, PatText(<<"/", "b", "b", "/">>), NoAddr, <<>>) >>),
      Cmd("s", NoAddr, PatText(<<"/", "(", "a", ")", "/", "b", "b", "/", "g">>), NoAddr, <<>>) }

LoopPats ==
    { PatText(p) : p \in { <<"/", "a", "/">>, <<"/", "a", "*", "/">>,
                           <<"/", "a", "b", "/">>, <<"/", "\\", "n", "/">> } }

LoopCmds(n) ==
    { Cmd(op, a, t, NoAddr, <<c>>) :
        op \in {"x", "y"}, a \in {NoAddr, <<0, n>>}, t \in LoopPats, c \in Inner }

\* The commands of a block and of a loop that name their own range: d of a
\* range or of dot, a/b/ at a point, and p, which changes nothing.
Placed(n) ==
    { Cmd("d", s, <<>>, NoAddr, <<>>) : s \in { s \in Spans(n) : s[1] < s[2] } \cup {NoAddr} }
    \cup { Cmd("a", <<i, i>>, PatText(<<"/", "b", "/">>), NoAddr, <<>>) : i \in 0..n }
    \cup { Cmd("p", NoAddr, <<>>, NoAddr, <<>>) }

\* Blocks of up to two commands, and of three with p in the middle.
SeqCmds(n) ==
    { Cmd("{", a, <<>>, NoAddr, cs) :
        a \in {NoAddr, <<0, n>>},
        cs \in { <<>> } \cup { <<c>> : c \in Placed(n) }
                \cup { <<c, d>> : c \in Placed(n), d \in Placed(n) }
                \cup { <<c, Cmd("p", NoAddr, <<>>, NoAddr, <<>>), d>> :
                          c \in Placed(n), d \in Placed(n) } }

\* Blocks of one m that moves a range to the end of the text.
MoveBlocks(n) ==
    { Cmd("{", NoAddr, <<>>, NoAddr, << Cmd("m", s, <<>>, <<n, n>>, <<>>) >>) :
        s \in { s \in Spans(n) : s[1] < s[2] /\ s[2] < n } }

\* Loops over a command that names its own range.
PlacedLoops(n) ==
    { Cmd(op, NoAddr, PatText(<<"/", "a", "/">>), NoAddr, <<c>>) :
        op \in {"x", "y"}, c \in Placed(n) }

Cmds(n) ==
    ChangeCmds(n) \cup MoveCmds(n) \cup SubCmds(n) \cup LoopCmds(n)
        \cup SeqCmds(n) \cup MoveBlocks(n) \cup PlacedLoops(n)

CmdInit ==
    /\ \E t \in DocTexts :
          /\ heap = New(<<>>, t).h /\ doc = New(<<>>, t).p
          /\ dot \in { d \in {<<0, Len(t)>>, <<1, 2>>} : d[2] <= Len(t) }
          /\ \E c \in Cmds(Len(t)) : ran = [pc |-> "ready", cmd |-> c, res |-> Done(<<>>, <<>>, <<>>)]
    /\ ds = <<>> /\ epc = "idle" /\ out = NoOut
    /\ found = [call |-> "none"]
    /\ RopeIdle /\ ParseIdle /\ ReadIdle

CmdIdle ==
    UNCHANGED <<doc, ds, dot, epc, found>> /\ UNCHANGED ropeVars
        /\ UNCHANGED parseVars /\ UNCHANGED readVars

DoEdit ==
    /\ ran.pc = "ready"
    /\ \E r \in {Edit(heap, dot, ran.cmd, doc)} :
          /\ ran' = [ran EXCEPT !.pc = "ran", !.res = r]
          /\ heap' = r.h
    /\ UNCHANGED out /\ CmdIdle

Succeeded == ran.pc # "ready" /\ ~ran.res.panic /\ ran.res.err = ""

DoApply ==
    /\ ran.pc = "ran" /\ Succeeded
    /\ \E r \in {DiffsApply(heap, ran.res.ds, doc)} :
          /\ out' = [out EXCEPT !.ro = r.ro, !.undo = r.undo, !.panic = r.panic]
          /\ heap' = r.h
    /\ ran' = [ran EXCEPT !.pc = "applied"]
    /\ CmdIdle

CmdNext == DoEdit \/ DoApply

CmdSpec == CmdInit /\ [][CmdNext]_vars

----------------------------------------------------------------------------
(* Properties of the commands. *)

\* The text of the document: Edit and Apply leave its rope as it was.
DocText == String(heap, doc)

\* The range the command ran on: its address, or dot when it has none.
RanOn == IF ran.cmd.a[1] < 0 THEN dot ELSE ran.cmd.a

\* t with the bytes of [a0, a1) replaced by x.
Replaced(t, a0, a1, x) == SubSeq(t, 1, a0) \o x \o SubSeq(t, a1 + 1, Len(t))

Applied == ran.pc = "applied" /\ ~out.panic

\* C20. Insert, append, change, delete: Edit returns exactly one diff: a
\* replaces [a1, a1) with the parsed text X, i replaces [a0, a0) with X, c
\* replaces [a0, a1) with X, d replaces [a0, a1) with the empty text; and
\* applying it changes no byte outside that range.
ChangeLaw ==
    (ran.pc # "ready" /\ ran.cmd.op \in {"a", "c", "d", "i"}) =>
        LET a == RanOn
            x == IF ran.cmd.op = "d" THEN <<>> ELSE parseText(ran.cmd.t).s
            at == CASE ran.cmd.op = "a" -> <<a[2], a[2]>>
                    [] ran.cmd.op = "i" -> <<a[1], a[1]>>
                    [] OTHER -> a
        IN  /\ Succeeded
            /\ Len(ran.res.ds) = 1
            /\ ran.res.ds[1].At = at
            /\ ran.res.ds[1].Text # NIL
            /\ String(heap, ran.res.ds[1].Text) = x
            /\ ran.pc = "applied" =>
                  (~out.panic /\ String(heap, out.ro) = Replaced(DocText, at[1], at[2], x))

ChangeLawWitness ==
    /\ Applied /\ ran.cmd.op = "a"
    /\ 0 < RanOn[1] /\ RanOn[1] < RanOn[2] /\ RanOn[2] < Len(DocText)
    /\ Len(DocText) + 2 = Len(String(heap, out.ro))

\* C19. Move: for a non-empty source [a0, a1) and a destination ending at
\* byte b, applying the diffs leaves the text T unchanged when a0 <= b < a1,
\* and otherwise yields T[:a0]+T[a1:b]+T[a0:a1]+T[b:] when b >= a1 and
\* T[:b]+T[a0:a1]+T[b:a0]+T[a1:] when b < a0.
MoveLaw ==
    (ran.pc # "ready" /\ ran.cmd.op = "m" /\ RanOn[1] < RanOn[2] /\ ran.cmd.b[1] >= 0) =>
        LET t == DocText
            a0 == RanOn[1]
            a1 == RanOn[2]
            b == ran.cmd.b[2]
        IN  /\ Succeeded
            /\ ran.pc = "applied" =>
                  /\ ~out.panic
                  /\ String(heap, out.ro) =
                        IF a0 <= b /\ b < a1 THEN t
                        ELSE IF b >= a1
                        THEN SubSeq(t, 1, a0) \o SubSeq(t, a1 + 1, b)
                                \o SubSeq(t, a0 + 1, a1) \o SubSeq(t, b + 1, Len(t))
                        ELSE SubSeq(t, 1, b) \o SubSeq(t, a0 + 1, a1)
                                \o SubSeq(t, b + 1, a0) \o SubSeq(t, a1 + 1, Len(t))

\* The successive matches of re in [a0, a1) of the rope: each search starts
\* where the match before it ended, one byte on when that match was empty.
RECURSIVE SubMatches(_, _, _, _, _)
SubMatches(h, re, ro, a0, a1) ==
    IF a0 > a1 THEN <<>>
    ELSE Only({ IF f.nil \/ f.panic THEN <<>>
                ELSE <<f.ms>> \o SubMatches(h, re, ro,
                                            IF f.ms[2] = f.ms[1] THEN a0 + 1 ELSE f.ms[2], a1)
                : f \in {FindInRope(h, re, ro, a0, a1)} })

\* The template with \0..\9 replaced by the text of the captures of ms.
Expand(h, ro, tmpl, delim, ms) ==
    parseDelimited(tmpl, [on |-> TRUE, h |-> h, ro |-> ro, ms |-> ms], delim).s

\* t with the matches mss[lo..i] replaced by their expansions, last first.
RECURSIVE Substituted(_, _, _, _, _, _, _)
Substituted(h, ro, tmpl, delim, mss, lo, i) ==
    IF i < lo THEN String(h, ro)
    ELSE Replaced(Substituted(h, ro, tmpl, delim, mss, lo, i - 1) ,
                  mss[i][1] + (Len(Substituted(h, ro, tmpl, delim, mss, lo, i - 1)) - RopeLen(h, ro)),
                  mss[i][2] + (Len(Substituted(h, ro, tmpl, delim, mss, lo, i - 1)) - RopeLen(h, ro)),
                  Expand(h, ro, tmpl, delim, mss[i]))

\* C15. Substitution: with the successive matches m1..mk of re in the range
\* and n = max(N, 1), s[N]/re/tmpl/[g] fails with "no match" when k < n, and
\* otherwise its diffs yield the text with only m_n replaced, or with g every
\* one of m_n..m_k, each by the template with \0..\9 expanded.
SubLaw ==
    (ran.pc # "ready" /\ ran.cmd.op = "s") =>
        LET nm == number(trimSpaceLeft(ran.cmd.t))
            delim == editNext(trimSpaceLeft(nm.t)).r
            r == parseRegexp(nm.t)
            g == editNext(trimSpaceLeft(parseDelimited(r.t, NoSub, delim).t)).r = Rune["g"]
            mss == SubMatches(heap, r.re, doc, RanOn[1], RanOn[2])
            k == Len(mss)
            n == IF nm.n < 1 THEN 1 ELSE nm.n
        IN  /\ ~ran.res.panic
            /\ k < n => ran.res.err = "no match"
            /\ k >= n =>
                  /\ ran.res.err = ""
                  /\ ran.pc = "applied" =>
                        /\ ~out.panic
                        /\ String(heap, out.ro) =
                              Substituted(heap, doc, r.t, delim, mss, n, IF g THEN k ELSE n)

\* The dots a loop runs its command on: the matches (x), or the gaps before,
\* between and after them (y).
RECURSIVE Gaps(_, _, _)
Gaps(mss, prev, a1) ==
    IF Len(mss) = 0 THEN << <<prev, a1>> >>
    ELSE << <<prev, Head(mss)[1]>> >> \o Gaps(Tail(mss), Head(mss)[2], a1)

LoopDots(h, re, ro, op, a) ==
    LET mss == SubMatches(h, re, ro, a[1], a[2])
    IN  IF op = "y" THEN Gaps(mss, a[1], a[2])
        ELSE [i \in DOMAIN mss |-> <<mss[i][1], mss[i][2]>>]

\* What the command makes of the dot dt when run alone on the original
\* text: the bytes the dot holds once the diffs of that run are applied.
Alone(h, ro, cmd, dt) ==
    Only({ Only({ [ok |-> ~e.panic /\ e.err = "" /\ ~r.panic,
                   s |-> IF e.panic \/ e.err # "" \/ r.panic THEN <<>>
                         ELSE SubSeq(String(r.h, r.ro), dt[1] + 1,
                                     dt[2] + RopeLen(r.h, r.ro) - RopeLen(h, ro))]
                  : r \in {IF e.panic \/ e.err # "" THEN [panic |-> TRUE]
                           ELSE DiffsApply(e.h, e.ds, ro)} })
           : e \in {Edit(h, dt, cmd, ro)} })

\* The text with dots[1..i] replaced by what the command makes of each.
RECURSIVE Looped(_, _, _, _, _)
Looped(h, ro, cmd, dots, i) ==
    IF i = 0 THEN String(h, ro)
    ELSE Only({ Replaced(t, dots[i][1] + Len(t) - RopeLen(h, ro),
                         dots[i][2] + Len(t) - RopeLen(h, ro),
                         Alone(h, ro, cmd, dots[i]).s)
                : t \in {Looped(h, ro, cmd, dots, i - 1)} })

\* C16. Loops: when the command changes only text inside its dot, x/re/cmd
\* succeeds and its diffs yield the text with each successive match replaced
\* by what the command makes of it on the original text; y/re/cmd does the
\* same for the gaps before, between and after the matches; whatever the
\* lengths and however many diffs each run produces.
LoopLaw ==
    (ran.pc # "ready" /\ ran.cmd.op \in {"x", "y"} /\ ran.cmd.sub[1].a = NoAddr
        /\ ran.cmd.sub[1].op # "p") =>
        LET re == parseRegexp(ran.cmd.t).re
            cmd == ran.cmd.sub[1]
            dots == LoopDots(heap, re, doc, ran.cmd.op, RanOn)
        IN  (\A i \in DOMAIN dots : Alone(heap, doc, cmd, dots[i]).ok) =>
               /\ Succeeded
               /\ ran.pc = "applied" =>
                     /\ ~out.panic
                     /\ String(heap, out.ro) = Looped(heap, doc, cmd, dots, Len(dots))

\* The executions of the nested commands of a block or a loop: each a
\* command and the dot it runs on.
Runs ==
    IF ran.cmd.op = "{"
    THEN [i \in DOMAIN ran.cmd.sub |-> [cmd |-> ran.cmd.sub[i], dot |-> RanOn]]
    ELSE LET dots == LoopDots(heap, parseRegexp(ran.cmd.t).re, doc, ran.cmd.op, RanOn)
         IN  [i \in DOMAIN dots |-> [cmd |-> ran.cmd.sub[1], dot |-> dots[i]]]

\* The ranges of diffs in the text they were computed on: each diff of a
\* sequence is stated in the text left by the diffs before it.
RECURSIVE OrigAt(_, _, _)
OrigAt(h, dd, adj) ==
    IF Len(dd) = 0 THEN <<>>
    ELSE << <<Head(dd).At[1] - adj, Head(dd).At[2] - adj>> >>
         \o OrigAt(h, Tail(dd),
                   adj + TextLen(h, Head(dd)) - (Head(dd).At[2] - Head(dd).At[1]))

\* What one execution returns when run alone on the original text.
RunAlone(r) ==
    Only({ [ok |-> ~e.panic /\ e.err = "",
            at |-> IF e.panic \/ e.err # "" THEN <<>> ELSE OrigAt(e.h, e.ds, 0)]
           : e \in {Edit(heap, r.dot, r.cmd, doc)} })

\* Some execution makes a diff that starts before the end of a diff of an
\* earlier execution.
Descends ==
    LET rs == Runs
        al == [i \in DOMAIN rs |-> RunAlone(rs[i])]
    IN  /\ \A i \in DOMAIN al : al[i].ok
        /\ \E i \in DOMAIN al : \E j \in DOMAIN al :
              /\ i < j
              /\ \E m \in DOMAIN al[i].at : \E n \in DOMAIN al[j].at :
                    al[j].at[n][1] < al[i].at[m][2]

\* C17. Ascending order is enforced: when, in a loop or a block, an execution
\* of a nested command makes a diff that starts before the end of a diff of
\* an earlier execution, Edit returns the error "out of order" and no diffs,
\* also when executions that make no diff come in between.
OrderLaw ==
    (ran.pc # "ready" /\ ran.cmd.op \in {"x", "y", "{"} /\ Descends) =>
        /\ ~ran.res.panic
        /\ ran.res.err = "out of order"
        /\ ran.res.ds = <<>>

\* The edits that diffs make, stated in the text the diffs were computed on:
\* each a range and the bytes that replace it.
Edits(h, dd) ==
    LET at == OrigAt(h, dd, 0)
    IN  [i \in DOMAIN dd |->
            [At |-> at[i],
             s |-> IF dd[i].Text = NIL THEN <<>> ELSE String(h, dd[i].Text)]]

\* The edits of the commands cmds[i..] of a block, each run alone on the
\* original text with dot a.
RECURSIVE BlockEdits(_, _, _, _, _)
BlockEdits(h, ro, a, cmds, i) ==
    IF i > Len(cmds) THEN <<>>
    ELSE Only({ (IF e.panic \/ e.err # "" THEN <<>> ELSE Edits(e.h, e.ds))
                \o BlockEdits(h, ro, a, cmds, i + 1)
                : e \in {Edit(h, a, cmds[i], ro)} })

\* No edit starts before the end of an edit that comes before it.
Ascending(es) ==
    \A i \in DOMAIN es : \A j \in DOMAIN es : i < j => es[j].At[1] >= es[i].At[2]

\* t with the edits es[1..i] made at once: from the last one to the first,
\* so that every range is a range of t.
RECURSIVE AtOnce(_, _, _)
AtOnce(t, es, i) ==
    IF i = Len(es) THEN t
    ELSE Replaced(AtOnce(t, es, i + 1), es[i + 1].At[1], es[i + 1].At[2], es[i + 1].s)

\* C18. Sequence isolation: every command of a block A{ ... } runs with dot
\* A on the original rope, whatever the commands before it did; when the
\* edits are in ascending order Edit returns the edits each command makes of
\* the original text, and applying them yields the text with all these edits
\* made at once.
SeqLaw ==
    (ran.pc # "ready" /\ ran.cmd.op = "{") =>
        LET es == BlockEdits(heap, doc, RanOn, ran.cmd.sub, 1)
        IN  ((\A i \in DOMAIN Runs : RunAlone(Runs[i]).ok) /\ Ascending(es)) =>
               /\ Succeeded
               /\ Edits(ran.res.h, ran.res.ds) = es
               /\ ran.pc = "applied" =>
                     /\ ~out.panic
                     /\ String(heap, out.ro) = AtOnce(DocText, es, 0)

----------------------------------------------------------------------------
(* Package edit: addresses.  An address function returns the range (or     *)
(* <<-1, -1>> for no address), the rest of the text, the error, and dot,    *)
(* which addr3 sets through its pointer.  The ropes that Slice makes for    *)
(* the readers are dropped when the function returns.                       *)

Addressed(a, t, dt) == [a |-> a, t |-> t, dot |-> dt, err |-> "", panic |-> FALSE]

AddrFails(t, err) == [a |-> <<0, 0>>, t |-> t, dot |-> <<0, 0>>, err |-> err, panic |-> FALSE]

AddrCrash == [a |-> <<0, 0>>, t |-> <<>>, dot |-> <<0, 0>>, err |-> "", panic |-> TRUE]

\* const addr1First = ".'#0123456789/$"
addr1First == {46, 39, 35, 47, 36} \cup (48..57)

\* ReadByte is Read of a slice of one byte.
ReadByte(h, rd) == Read(h, rd, 1)

ReverseReadByte(h, rd) == ReverseRead(h, rd, 1)

\* The loop of runeAddr: the width of nrunes runes, or -1 at an error.
RECURSIVE runeBytes(_, _, _, _, _)
runeBytes(h, rd, rev, nrunes, nbytes) ==
    IF nrunes <= 0 THEN [n |-> nbytes, panic |-> FALSE]
    ELSE Only({ IF x.panic THEN [n |-> 0, panic |-> TRUE]
                ELSE IF x.eof THEN [n |-> -1, panic |-> FALSE]
                ELSE runeBytes(h, x.rd, rev, nrunes - 1, nbytes + x.w)
                : x \in {IF rev THEN ReverseReadRune(h, rd) ELSE ReadRune(h, rd)} })

runeAddr(h, ro, at, rev, t) ==
    LET nm == number(t)
    IN  Only({ IF sl.panic THEN AddrCrash
               ELSE Only({ IF w.panic THEN AddrCrash
                           ELSE IF w.n < 0 THEN AddrFails(<<>>, "address out of range")
                           ELSE IF rev THEN Addressed(<<at - w.n, at - w.n>>, nm.t, <<0, 0>>)
                           ELSE Addressed(<<at + w.n, at + w.n>>, nm.t, <<0, 0>>)
                           : w \in {runeBytes(sl.h, NewReader(sl.p), rev, nm.n, 0)} })
               : sl \in {IF rev THEN Slice(h, ro, 0, at)
                         ELSE Slice(h, ro, at, RopeLen(h, ro))} })

RECURSIVE lineForward(_, _, _, _, _)
lineForward(h, rd, at, nlines, dt) ==
    IF nlines < 0 THEN [dot |-> dt, err |-> ""]
    ELSE Only({ IF x.eof /\ nlines # 0 THEN [dot |-> <<0, 0>>, err |-> "address out of range"]
                ELSE LET b == IF x.eof THEN Rune["\n"] ELSE x.got[1]
                         at1 == IF x.eof THEN at ELSE at + 1
                     IN  IF b = Rune["\n"]
                         THEN lineForward(h, x.rd, at1, nlines - 1, <<dt[2], at1>>)
                         ELSE lineForward(h, x.rd, at1, nlines, dt)
                : x \in {ReadByte(h, rd)} })

RECURSIVE lineReverse(_, _, _, _, _)
lineReverse(h, rd, at, nlines, dt) ==
    Only({ IF x.eof /\ nlines # 0
           THEN IF nlines = 1 THEN [dot |-> <<0, 0>>, err |-> ""]
                ELSE [dot |-> <<0, 0>>, err |-> "address out of range"]
           ELSE LET b == IF x.eof THEN Rune["\n"] ELSE x.got[1]
                IN  IF b = Rune["\n"]
                    THEN IF nlines - 1 < 0 THEN [dot |-> <<at, dt[1]>>, err |-> ""]
                         ELSE lineReverse(h, x.rd, at - 1, nlines - 1, <<at, dt[1]>>)
                    ELSE lineReverse(h, x.rd, at - 1, nlines, dt)
           : x \in {ReverseReadByte(h, rd)} })

firstLineAlways(r, n) == n - 1

\* if r, _, err := rr.ReadRune(); err != nil || r == '\n' { n-- }
firstLine(r, n) == IF r = eof \/ r = Rune["\n"] THEN n - 1 ELSE n

lineAddr(h, ro, at, rev, t) ==
    LET nm == number(t)
    IN  IF rev
        THEN Only({ IF sl.panic THEN AddrCrash
                    ELSE Only({ IF l.err # "" THEN AddrFails(nm.t, l.err)
                                ELSE Addressed(l.dot, nm.t, <<0, 0>>)
                                : l \in {lineReverse(sl.h, NewReader(sl.p), at, nm.n,
                                                     <<at, at>>)} })
                    : sl \in {Slice(h, ro, 0, at)} })
        ELSE Only({ IF pr.panic THEN AddrCrash
                    ELSE Only({ IF sl.panic THEN AddrCrash
                                ELSE Only({ IF l.err # "" THEN AddrFails(nm.t, l.err)
                                            ELSE Addressed(l.dot, nm.t, <<0, 0>>)
                                            : l \in {lineForward(sl.h, NewReader(sl.p), at,
                                                        firstLine(pr.r, nm.n),
                                                        <<at, at>>)} })
                                : sl \in {Slice(h, ro, at, RopeLen(h, ro))} })
                    : pr \in {prevRune(h, ro, at)} })

regexpAddr(h, ro, at, rev, t) ==
    Only({ IF r.panic THEN AddrCrash
           ELSE IF r.err # "" THEN AddrFails(<<>>, r.err)
           ELSE Only({ IF f.panic THEN AddrCrash
                       ELSE Only({ IF g.panic THEN AddrCrash
                                   ELSE IF g.nil \/ Len(g.ms) = 0
                                   THEN AddrFails(r.t, "no match")
                                   ELSE Addressed(<<g.ms[1], g.ms[2]>>, r.t, <<0, 0>>)
                                   : g \in {IF ~f.nil THEN f
                                            ELSE IF rev
                                            THEN FindReverseInRope(h, r.re, ro, 0, RopeLen(h, ro))
                                            ELSE FindInRope(h, r.re, ro, 0, RopeLen(h, ro))} })
                       : f \in {IF rev THEN FindReverseInRope(h, r.re, ro, 0, at)
                                ELSE FindInRope(h, r.re, ro, at, RopeLen(h, ro))} })
           : r \in {re1New(t, [Reverse |-> rev, Delimiter |-> Rune["/"]])} })

addr1(h, dt, at, rev, ro, t00) ==
    LET t0 == trimSpaceLeft(t00)
        n == editNext(t0)
    IN  CASE n.r = eof -> Addressed(NoAddr, <<>>, <<0, 0>>)
          [] n.r = Rune["."] -> Addressed(dt, n.t, <<0, 0>>)
          [] n.r = Rune["#"] -> runeAddr(h, ro, at, rev, n.t)
          [] n.r \in 48..57 -> lineAddr(h, ro, at, rev, t0)
          [] n.r = Rune["/"] -> regexpAddr(h, ro, at, rev, n.t)
          [] n.r = Rune["$"] -> Addressed(<<RopeLen(h, ro), RopeLen(h, ro)>>, n.t, <<0, 0>>)
          [] OTHER -> Addressed(NoAddr, t0, <<0, 0>>)

RECURSIVE addr2(_, _, _, _, _)
addr2(h, dt, left0, ro, t0) ==
    LET n == editNext(trimSpaceLeft(t0))
        ins == n.r # eof /\ n.r \in addr1First
        r == IF ins THEN Rune["+"] ELSE n.r
        t == IF ins THEN t0 ELSE n.t
    IN  IF n.r = eof THEN Addressed(left0, <<>>, <<0, 0>>)
        ELSE IF r # Rune["+"] /\ r # Rune["-"] THEN Addressed(left0, t0, <<0, 0>>)
        ELSE LET left == IF left0[1] < 0 THEN dt ELSE left0
                 at == IF r = Rune["-"] THEN left[1] ELSE left[2]
             IN  Only({
                 IF right.panic THEN AddrCrash
                 ELSE IF right.err # "" THEN AddrFails(<<>>, right.err)
                 ELSE IF right.a[1] < 0
                 THEN Only({ IF one.panic THEN AddrCrash
                             ELSE IF one.err # "" THEN AddrFails(right.t, one.err)
                             ELSE addr2(h, dt, one.a, ro, right.t)
                             : one \in {addr1(h, dt, at, r = Rune["-"], ro, <<Rune["1"]>>)} })
                 ELSE addr2(h, dt, right.a, ro, right.t)
                 : right \in {addr1(h, dt, at, r = Rune["-"], ro, t)} })

RECURSIVE addr(_, _, _, _)

semiDotNever(r, left, dt) == dt

\* if r == ';' { *dot = left }
semiDot(r, left, dt) == IF r = Rune[";"] THEN left ELSE dt

rightEndIsStart(h, ro, right) == IF right[1] < 0 THEN RopeLen(h, ro) ELSE right[1]

\* The end of the right side: the end of the text when there is none.
rightEnd(h, ro, right) == IF right[1] < 0 THEN RopeLen(h, ro) ELSE right[2]

\* addr3 sets *dot for ';' and hands the pointer on; dot is returned with
\* the range.
RECURSIVE addr3(_, _, _, _, _)
addr3(h, dt, left0, ro, t0) ==
    LET n == editNext(trimSpaceLeft(t0))
    IN  IF n.r = eof THEN Addressed(left0, <<>>, dt)
        ELSE IF n.r # Rune[","] /\ n.r # Rune[";"] THEN Addressed(left0, t0, dt)
        ELSE LET left == IF left0[1] < 0 THEN <<0, 0>> ELSE left0
                 dt1 == semiDot(n.r, left, dt)
             IN  Only({
                 IF right.panic THEN AddrCrash
                 ELSE IF right.err # "" THEN AddrFails(<<>>, right.err)
                 ELSE LET re == rightEnd(h, ro, right.a)
                      IN  IF left[1] > re THEN AddrFails(right.t, "address out of order")
                          ELSE addr3(h, right.dot, <<left[1], re>>, ro, right.t)
                 : right \in {addr(h, dt1, ro, n.t)} })

addr(h, dt, ro, t) ==
    Only({ IF l1.panic THEN AddrCrash
           ELSE IF l1.err # "" THEN AddrFails(<<>>, l1.err)
           ELSE Only({ IF l2.panic THEN AddrCrash
                       ELSE IF l2.err # "" THEN AddrFails(<<>>, l2.err)
                       ELSE addr3(h, dt, l2.a, ro, l2.t)
                       : l2 \in {addr2(h, dt, l1.a, ro, l1.t)} })
           : l1 \in {addr1(h, dt, 0, FALSE, ro, t)} })

\* Addr computes an address using the given value for dot.
Addr(h, dt, t, ro) ==
    Only({ IF x.panic THEN AddrCrash
           ELSE IF x.err # "" THEN AddrFails(<<>>, x.err)
           ELSE IF Len(trimSpaceLeft(x.t)) # 0 THEN AddrFails(<<>>, "expected end-of-input")
           ELSE IF x.a[1] < 0 THEN AddrFails(<<>>, "no address")
           ELSE Addressed(x.a, <<>>, x.dot)
           : x \in {addr(h, dt, ro, t)} })

----------------------------------------------------------------------------
(* The caller of Addr: it holds a document and a dot and resolves one       *)
(* address.  The address is kept in its parts: left, the separator (none,   *)
(* + or - for a relative address, , or ; for a range) and right.            *)

\* A letter, the newline, and a continuation byte.
AddrBytes == {Rune["a"], Rune["\n"], 144}

AddrDocs == UNION { [1..n -> AddrBytes] : n \in 0..MaxDoc }

AddrText(left, sep, right) ==
    [left |-> PatText(left), sep |-> PatText(sep), right |-> PatText(right),
     t |-> PatText(left \o sep \o right)]

\* Addresses without an operator.
Simples ==
    { <<>>, <<".">>, <<"$">>, <<"#">>, <<"#", "0">>, <<"#", "2">>,
      <<"0">>, <<"1">>, <<"2">>, <<"3">>, <<"4">>,
      <<"/", "a", "/">>, <<"/", "a", "a", "/">>, <<"/", "b", "/">>, <<"/", ".", "/">> }

\* What follows + or -.
Steps == { <<>>, <<"0">>, <<"1">>, <<"2">>, <<"3">>, <<"/", "a", "/">>, <<"/", ".", "/">> }

\* What + or - starts from.
Starts == { <<>>, <<".">>, <<"$">>, <<"#", "1">>, <<"#", "2">>, <<"0">>, <<"1">>, <<"2">> }

\* The sides of a range.
Sides ==
    { <<>>, <<".">>, <<"$">>, <<"#", "1">>, <<"0">>, <<"1">>, <<"2">>, <<"3">>,
      <<".", "+", "1">>, <<"+">>, <<"-", "1">>, <<"/", "a", "/">>, <<"+", "/", "a", "/">> }

\* The left sides of a range.
Lefts ==
    { <<>>, <<".">>, <<"$">>, <<"#", "1">>, <<"1">>, <<"2">>, <<"3">>, <<"/", "a", "/">> }

\* Right sides that are ranges themselves.
Chains ==
    { <<"2", ",", "3">>, <<"1", ",", "3">>, <<"3", ",", "1">>, <<"2", ";", ".">>,
      <<".", ";", "+", "1">>, <<"1", ",", ".">> }

AddrTexts ==
    { AddrText(s, <<>>, <<>>) : s \in Simples }
    \cup { AddrText(l, <<o>>, r) : l \in Starts, o \in {"+", "-"}, r \in Steps }
    \cup { AddrText(l, <<o>>, r) : l \in Lefts, o \in {",", ";"}, r \in Sides \cup Chains }

AddrInit ==
    /\ \E t \in AddrDocs :
          /\ heap = New(<<>>, t).h /\ doc = New(<<>>, t).p
          /\ dot \in { d \in Spans(Len(t)) : d[2] - d[1] <= 1 }
    /\ \E a \in AddrTexts :
          ran = [pc |-> "ready", cmd |-> a, res |-> Addressed(NoAddr, <<>>, <<0, 0>>)]
    /\ ds = <<>> /\ epc = "idle" /\ out = NoOut
    /\ found = [call |-> "none"]
    /\ RopeIdle /\ ParseIdle /\ ReadIdle

DoAddr ==
    /\ ran.pc = "ready"
    /\ ran' = [ran EXCEPT !.pc = "resolved", !.res = Addr(heap, dot, ran.cmd.t, doc)]
    /\ UNCHANGED <<heap, out>> /\ CmdIdle

AddrNext == DoAddr

AddrSpec == AddrInit /\ [][AddrNext]_vars

----------------------------------------------------------------------------
(* Properties of the addresses. *)

Resolved == ran.pc = "resolved"

\* A side of a range resolved on its own with dot dt; an absent side has
\* no range of its own.
SideAlone(side, dt) ==
    IF Len(trimSpaceLeft(side)) = 0
    THEN [absent |-> TRUE, ok |-> TRUE, a |-> NoAddr]
    ELSE Only({ [absent |-> FALSE, ok |-> ~x.panic /\ x.err = "", a |-> x.a]
                : x \in {Addr(heap, dt, side, doc)} })

\* The range a range address has to resolve to when its left side is l and
\* its right side is r: an absent left side is 0, an absent right side is
\* the end of the text.
RangeOf(l, r) ==
    <<IF l.absent THEN 0 ELSE l.a[1], IF r.absent THEN Len(DocText) ELSE r.a[2]>>

\* C21. Comma range: A,B resolves to [start(A), end(B)), 0 for an absent A
\* and the end of the text for an absent B, both sides resolved with the
\* caller's dot; it fails with "address out of order" exactly when start(A)
\* is beyond end(B).  A right side that is a range itself counts as one
\* address, so 1,2,3 is the span from the first start to the last end.
CommaLaw ==
    (Resolved /\ ran.cmd.sep = <<Rune[","]>>) =>
        LET l == SideAlone(ran.cmd.left, dot)
            r == SideAlone(ran.cmd.right, dot)
            want == RangeOf(l, r)
        IN  (l.ok /\ r.ok) =>
               /\ ~ran.res.panic
               /\ IF want[1] > want[2] THEN ran.res.err = "address out of order"
                  ELSE ran.res.err = "" /\ ran.res.a = want

\* A comma range whose right side is relative to dot, where dot is not the
\* left side, and a chain of three.
CommaLawWitness ==
    /\ Resolved /\ ran.cmd.sep = <<Rune[","]>> /\ ran.res.err = ""
    /\ ran.cmd.left = PatText(<<"2">>) /\ ran.cmd.right = PatText(<<".", "+", "1">>)
    /\ dot # ran.res.a /\ ran.res.a[2] > ran.res.a[1]
    /\ ran.res.a # Addr(heap, dot, PatText(<<"2", ";", ".", "+", "1">>), doc).a

\* C22. Semicolon sets dot: in A;B the right side B is resolved with dot set
\* to the range of A (to [0, 0) when A is absent), so . and relative
\* addresses in B start from A and not from the caller's dot.
SemiLaw ==
    (Resolved /\ ran.cmd.sep = <<Rune[";"]>>) =>
        LET l == SideAlone(ran.cmd.left, dot)
            r == SideAlone(ran.cmd.right, IF l.absent THEN <<0, 0>> ELSE l.a)
            want == RangeOf(l, r)
        IN  (l.ok /\ r.ok) =>
               /\ ~ran.res.panic
               /\ IF want[1] > want[2] THEN ran.res.err = "address out of order"
                  ELSE ran.res.err = "" /\ ran.res.a = want

\* 2;.+1 where it is not what 2,.+1 is: lines 2 and 3, not line 2 alone.
SemiLawWitness ==
    /\ Resolved /\ ran.cmd.sep = <<Rune[";"]>> /\ ran.res.err = ""
    /\ ran.cmd.left = PatText(<<"2">>) /\ ran.cmd.right = PatText(<<".", "+", "1">>)
    /\ LET comma == Addr(heap, dot, PatText(<<"2", ",", ".", "+", "1">>), doc)
           two == Addr(heap, dot, PatText(<<"2">>), doc)
       IN  /\ comma.err = "" /\ comma.a # ran.res.a
           /\ ran.res.a[1] = two.a[1] /\ ran.res.a[2] > two.a[2]

\* The lines of t: t cut after each newline, the last line being what
\* follows the last newline.  LineEnd(t, j) is where line j ends.
Newlines(t) == { i \in DOMAIN t : t[i] = Rune["\n"] }

LineCount(t) == Cardinality(Newlines(t)) + 1

LineEnd(t, j) ==
    IF j = 0 THEN 0
    ELSE IF j = LineCount(t) THEN Len(t)
    ELSE CHOOSE i \in Newlines(t) : Cardinality({ m \in Newlines(t) : m <= i }) = j

\* Line n of t: [0, 0) for 0, no line beyond the last.
LineOf(t, n) ==
    IF n = 0 THEN [ok |-> TRUE, a |-> <<0, 0>>]
    ELSE IF n > LineCount(t) THEN [ok |-> FALSE, a |-> <<0, 0>>]
    ELSE [ok |-> TRUE, a |-> <<LineEnd(t, n - 1), LineEnd(t, n)>>]

IsNumber(t) == Len(t) > 0 /\ \A i \in DOMAIN t : t[i] \in 48..57

\* The result is the line l moved by off, or an error when there is none.
ResolvesTo(l, off) ==
    /\ ~ran.res.panic
    /\ IF l.ok THEN ran.res.err = "" /\ ran.res.a = <<l.a[1] + off, l.a[2] + off>>
       ELSE ran.res.err = "address out of range"

\* The absolute address N is line N.
AbsoluteLine ==
    (Resolved /\ ran.cmd.sep = <<>> /\ IsNumber(ran.cmd.left)) =>
        ResolvesTo(LineOf(DocText, number(ran.cmd.left).n), 0)

\* Where A of A+N ends: A resolved on its own, dot when A is absent.
StartOf(side) ==
    LET l == SideAlone(side, dot)
    IN  [ok |-> l.ok, e |-> IF l.absent THEN dot[2] ELSE l.a[2]]

AtLineStart(e) == e = 0 \/ DocText[e] = Rune["\n"]

\* C23. Line addresses: N is [0, 0) for 0, the bytes of line N with its
\* newline for a line of the text, and "address out of range" beyond the
\* last line; A+N counts the lines of the text after the end of A in the
\* same way, wherever A ends.
LineLaw ==
    /\ AbsoluteLine
    /\ (Resolved /\ ran.cmd.sep = <<Rune["+"]>> /\ IsNumber(ran.cmd.right)) =>
          LET s == StartOf(ran.cmd.left)
          IN  s.ok => ResolvesTo(LineOf(SubSeq(DocText, s.e + 1, Len(DocText)),
                                        number(ran.cmd.right).n), s.e)

\* C23, amended: as LineLaw when A ends at the start of a line (at 0 or
\* right after a newline); when A ends inside a line, A+N is line N+1 of
\* the text after the end of A, so that A+0 is the rest of that line and
\* A+N the N-th whole line after it.
LineLawAmended ==
    /\ AbsoluteLine
    /\ (Resolved /\ ran.cmd.sep = <<Rune["+"]>> /\ IsNumber(ran.cmd.right)) =>
          LET s == StartOf(ran.cmd.left)
              n == number(ran.cmd.right).n
          IN  s.ok => ResolvesTo(LineOf(SubSeq(DocText, s.e + 1, Len(DocText)),
                                        IF AtLineStart(s.e) THEN n ELSE n + 1), s.e)

\* A+1 resolved to a whole line from inside the line before it.
LineLawAmendedWitness ==
    /\ Resolved /\ ran.cmd.sep = <<Rune["+"]>> /\ ran.cmd.right = PatText(<<"1">>)
    /\ StartOf(ran.cmd.left).ok /\ ~AtLineStart(StartOf(ran.cmd.left).e)
    /\ ran.res.err = "" /\ ran.res.a[2] > ran.res.a[1]
    /\ ran.res.a[1] > StartOf(ran.cmd.left).e

IsRegexp(t) == Len(t) > 0 /\ Head(t) = Rune["/"]

\* The match a regexp address has to resolve to from position p: the one
\* in the text ahead when there is one, else the one in the whole text.
Wrapped(re, rev, p) ==
    LET n == Len(DocText)
        near == IF rev THEN MatchesReverse(re, DocText, 0, p) ELSE Matches(re, DocText, p, n)
        all == IF rev THEN MatchesReverse(re, DocText, 0, n) ELSE Matches(re, DocText, 0, n)
        ms == IF near # {} THEN near ELSE all
    IN  IF ms = {} THEN [ok |-> FALSE, a |-> <<0, 0>>]
        ELSE [ok |-> TRUE, a |-> IF rev THEN RightmostLongest(ms) ELSE LeftmostLongest(ms)]

\* The regexp address of the command, its direction, and where it starts:
\* /re/ on its own starts at 0, A+/re/ at the end of A, A-/re/ goes back
\* from the start of A.
RegexpCase ==
    IF ran.cmd.sep = <<>>
    THEN [is |-> IsRegexp(ran.cmd.left), rev |-> FALSE, text |-> ran.cmd.left,
          ok |-> TRUE, p |-> 0]
    ELSE LET l == SideAlone(ran.cmd.left, dot)
             rev == ran.cmd.sep = <<Rune["-"]>>
             a == IF l.absent THEN dot ELSE l.a
         IN  [is |-> ran.cmd.sep \in {<<Rune["+"]>>, <<Rune["-"]>>} /\ IsRegexp(ran.cmd.right),
              rev |-> rev, text |-> ran.cmd.right, ok |-> l.ok,
              p |-> IF rev THEN a[1] ELSE a[2]]

\* C24. Regexp address wrap-around: a forward regexp address from position
\* p resolves to the leftmost-longest match in [p, Len) when there is one,
\* else to the leftmost-longest match in [0, Len), and fails with "no match"
\* only when the regexp matches nowhere; a reverse one resolves to the
\* right-most match in [0, p) when there is one, else to the right-most
\* match in [0, Len).
WrapLaw ==
    (Resolved /\ RegexpCase.is /\ RegexpCase.ok) =>
        LET c == RegexpCase
            re == re1New(Tail(c.text), [Reverse |-> c.rev, Delimiter |-> Rune["/"]]).re
            w == Wrapped(re, c.rev, c.p)
        IN  /\ ~ran.res.panic
            /\ IF w.ok THEN ran.res.err = "" /\ ran.res.a = w.a
               ELSE ran.res.err = "no match"

----------------------------------------------------------------------------
(* A caller that keeps its dot across several diffs in two ways: with one   *)
(* call of Diffs.Update, and with a call of Diff.Update for each diff in    *)
(* turn.  ran holds the second way: the diffs done, the dot before the      *)
(* last of them and the dot after it.                                       *)

StepInit ==
    /\ heap = TextHeap
    /\ doc = NIL
    /\ \E n \in 1..MaxDiffs :
          \E rs \in [1..n -> Ranges], ts \in [1..n -> Texts] :
              ds = [i \in 1..n |-> Diff(rs[i][1], rs[i][2], ts[i])]
    /\ dot \in Ranges
    /\ epc = "edited" /\ out = NoOut
    /\ found = [call |-> "none"]
    /\ ran = [pc |-> 0, prev |-> dot, dot |-> dot]
    /\ RopeIdle /\ ParseIdle /\ ReadIdle

UpdateStep ==
    /\ ran.pc < Len(ds)
    /\ ran' = [pc |-> ran.pc + 1, prev |-> ran.dot,
               dot |-> DiffUpdate(heap, ds[ran.pc + 1], ran.dot)]
    /\ UNCHANGED <<heap, found>> /\ UNCHANGED editVars
    /\ UNCHANGED ropeVars /\ UNCHANGED parseVars /\ UNCHANGED readVars

StepNext == Update \/ UpdateStep

StepSpec == StepInit /\ [][StepNext]_vars

\* C25. Dot update for a diff outside the dot: a diff that starts at or
\* after the end of the dot leaves the dot as it is; otherwise a diff that
\* ends at or before the start of the dot shifts both ends by the change of
\* length; and Diffs.Update is the Update of each diff, left to right.
ShiftLaw ==
    /\ ran.pc > 0 =>
          LET d == ds[ran.pc]
              delta == TextLen(heap, d) - (d.At[2] - d.At[1])
          IN  /\ d.At[1] >= ran.prev[2] => ran.dot = ran.prev
              /\ (d.At[1] < ran.prev[2] /\ d.At[2] <= ran.prev[1]) =>
                    ran.dot = <<ran.prev[1] + delta, ran.prev[2] + delta>>
    /\ (epc = "updated" /\ ran.pc = Len(ds)) => out.dot = ran.dot

\* Two diffs before the dot, each changing the length, done both ways.
ShiftLawWitness ==
    /\ epc = "updated" /\ Len(ds) = 2 /\ ran.pc = 2
    /\ ds[2].At[2] <= ran.prev[1] /\ ds[2].At[1] < ran.prev[2]
    /\ ds[1].At[2] <= dot[1] /\ ds[1].At[1] < dot[2]
    /\ ran.prev # dot /\ ran.dot # ran.prev /\ out.dot # dot

----------------------------------------------------------------------------
(* Package edit: the shell pipe commands |, < and >.                        *)
(*                                                                          *)
(* pipe starts a subprocess and up to two goroutines: one reads the         *)
(* subprocess's stdout to its end and stores it as the Text of the only     *)
(* diff, the other writes the addressed text to the subprocess's stdin and  *)
(* closes it.  pipe then waits for the goroutines (wg.Wait), then for the   *)
(* process (cmd.Wait).  ran holds the state of one call: the position of    *)
(* pipe (pc), of the goroutines (rd, wr) and of the copy that os/exec does  *)
(* for a Stdout that is no file (cp), the wait group's counter (wg), the    *)
(* two operating-system pipes (stdin, stdout: the bytes in flight, at most  *)
(* PipeCap each), the bytes not written yet (src), the bytes read so far    *)
(* (txt), the print sink, and the subprocess (proc).  sent is the history   *)
(* of the bytes the subprocess has written to its stdout, and jam tells     *)
(* whether both pipes were ever full at once with more to come in each.     *)

\* The capacity of an operating-system pipe, in bytes.
PipeCap == 1

\* The most bytes the subprocess writes for each byte it reads.
MaxGain == 2

\* The subprocess: a filter that writes gain copies of each byte it reads
\* and exits at the end of its input; one that quits may also exit, with a
\* failure, before that.  pend holds what it still has to write.
Proc(gain, quits) == [state |-> "unborn", gain |-> gain, quits |-> quits, pend |-> <<>>]

\* The reading goroutine takes its steps only after the writing one is done.
readingAfterWriting(r) == r.rd = "reading" /\ r.wr \in {"none", "done"}

\* The reading goroutine runs on its own from the go statement on.
reading(r) == r.rd = "reading"

\* The writing goroutine runs on its own from the go statement on.
writing(r) == r.wr = "writing"

\* wg.Wait returns once every goroutine has called wg.Done.
wgWait(r) == r.wg = 0

\* Both pipes are full, the subprocess has more to write and so has the
\* writing goroutine.
Jammed(r) ==
    /\ Len(r.stdin) = PipeCap /\ r.src # <<>>
    /\ Len(r.stdout) = PipeCap /\ r.proc.pend # <<>>

Note(r) == [r EXCEPT !.jam = @ \/ Jammed(r)]

\* A document of n bytes.
PipeDoc(n) == [i \in 1..n |-> IF i % 2 = 1 THEN Rune["a"] ELSE Rune["\n"]]

PipeInit ==
    /\ \E n \in 0..MaxDoc :
          /\ heap = New(<<>>, PipeDoc(n)).h /\ doc = New(<<>>, PipeDoc(n)).p
          /\ dot \in Spans(n)
    /\ \E op \in {"|", "<", ">"}, arg \in {"", "cmd"}, g \in 0..MaxGain, q \in BOOLEAN :
          ran = [pc |-> "start", op |-> op, arg |-> arg, wg |-> 0,
                 rd |-> "none", wr |-> "none", cp |-> "none",
                 src |-> SubSeq(String(heap, doc), dot[1] + 1, dot[2]),
                 stdin |-> <<>>, open |-> FALSE, stdout |-> <<>>,
                 txt |-> <<>>, print |-> <<>>, sent |-> <<>>, jam |-> FALSE,
                 proc |-> Proc(g, q), err |-> ""]
    /\ ds = <<>> /\ epc = "idle" /\ out = NoOut
    /\ found = [call |-> "none"]
    /\ RopeIdle /\ ParseIdle /\ ReadIdle

PipeIdle ==
    UNCHANGED <<doc, dot, epc, out, found>> /\ UNCHANGED ropeVars
        /\ UNCHANGED parseVars /\ UNCHANGED readVars

\* pipe up to wg.Wait: the command is split off, the pipes are opened, the
\* process is started and the goroutines are.
PipeStart ==
    /\ ran.pc = "start"
    /\ IF ran.arg = ""
         THEN ran' = [ran EXCEPT !.pc = "returned", !.err = "expected command"]
         ELSE ran' = [ran EXCEPT
                        !.pc = "wait",
                        !.proc.state = "run",
                        !.open = ran.op \in {">", "|"},
                        !.rd = IF ran.op \in {"<", "|"} THEN "reading" ELSE "none",
                        !.wr = IF ran.op \in {">", "|"} THEN "writing" ELSE "none",
                        !.cp = IF ran.op = ">" THEN "copying" ELSE "none",
                        !.wg = (IF ran.op \in {"<", "|"} THEN 1 ELSE 0)
                                 + (IF ran.op \in {">", "|"} THEN 1 ELSE 0)]
    /\ UNCHANGED <<heap, ds>> /\ PipeIdle

\* rope.ReadFrom(stdout) takes the bytes that are in the pipe.
ReadStdout ==
    /\ reading(ran) /\ ran.stdout # <<>>
    /\ ran' = [ran EXCEPT !.txt = @ \o <<Head(ran.stdout)>>, !.stdout = Tail(@)]
    /\ UNCHANGED <<heap, ds>> /\ PipeIdle

\* rope.ReadFrom(stdout) finds the end of the pipe: the diff is stored and
\* the goroutine is done.
StoreDiffs ==
    /\ reading(ran) /\ ran.stdout = <<>> /\ ran.proc.state # "run"
    /\ \E r \in {New(heap, ran.txt)} :
          /\ heap' = r.h
          /\ ds' = <<Diff(dot[1], dot[2], r.p)>>
    /\ ran' = [ran EXCEPT !.rd = "done", !.wg = @ - 1]
    /\ PipeIdle

\* WriteTo(stdin) writes the next byte when the pipe has room for it.
WriteStdin ==
    /\ writing(ran) /\ ran.src # <<>>
    /\ ran.proc.state = "run" /\ Len(ran.stdin) < PipeCap
    /\ ran' = Note([ran EXCEPT !.stdin = @ \o <<Head(ran.src)>>, !.src = Tail(@)])
    /\ UNCHANGED <<heap, ds>> /\ PipeIdle

\* WriteTo(stdin) returns, at the end of the text or with the error of a
\* pipe nobody reads; stdin is closed and the goroutine is done.
CloseStdin ==
    /\ writing(ran) /\ (ran.src = <<>> \/ ran.proc.state # "run")
    /\ ran' = [ran EXCEPT !.open = FALSE, !.wr = "done", !.wg = @ - 1]
    /\ UNCHANGED <<heap, ds>> /\ PipeIdle

\* For >, os/exec copies the subprocess's stdout to print until its end.
CopyStdout ==
    /\ ran.cp = "copying"
    /\ IF ran.stdout # <<>>
         THEN ran' = [ran EXCEPT !.print = @ \o <<Head(ran.stdout)>>, !.stdout = Tail(@)]
         ELSE /\ ran.proc.state # "run"
              /\ ran' = [ran EXCEPT !.cp = "done"]
    /\ UNCHANGED <<heap, ds>> /\ PipeIdle

\* The subprocess reads a byte of its input.
ProcRead ==
    /\ ran.proc.state = "run" /\ ran.proc.pend = <<>> /\ ran.stdin # <<>>
    /\ ran' = [ran EXCEPT !.stdin = Tail(@),
                          !.proc.pend = [i \in 1..ran.proc.gain |-> Head(ran.stdin)]]
    /\ UNCHANGED <<heap, ds>> /\ PipeIdle

\* The subprocess writes a byte when its stdout has room for it.
ProcWrite ==
    /\ ran.proc.state = "run" /\ ran.proc.pend # <<>>
    /\ Len(ran.stdout) < PipeCap
    /\ ran' = Note([ran EXCEPT !.stdout = @ \o <<Head(ran.proc.pend)>>,
                               !.sent = @ \o <<Head(ran.proc.pend)>>,
                               !.proc.pend = Tail(@)])
    /\ UNCHANGED <<heap, ds>> /\ PipeIdle

\* The subprocess exits: at the end of its input, or before if it quits.
ProcExit ==
    /\ ran.proc.state = "run" /\ ran.proc.pend = <<>>
    /\ (ran.stdin = <<>> /\ ~ran.open) \/ ran.proc.quits
    /\ ran' = [ran EXCEPT !.proc.state = "exited", !.stdin = <<>>]
    /\ UNCHANGED <<heap, ds>> /\ PipeIdle

\* wg.Wait().
WgWait ==
    /\ ran.pc = "wait" /\ wgWait(ran)
    /\ ran' = [ran EXCEPT !.pc = "cmdwait"]
    /\ UNCHANGED <<heap, ds>> /\ PipeIdle

\* cmd.Wait() and the return of ds and err.
CmdWait ==
    /\ ran.pc = "cmdwait"
    /\ ran.proc.state = "exited" /\ ran.cp \in {"none", "done"}
    /\ ran' = [ran EXCEPT !.pc = "returned", !.proc.state = "reaped",
                          !.err = IF ran.proc.quits THEN "exit status 1" ELSE ""]
    /\ UNCHANGED <<heap, ds>> /\ PipeIdle

PipeMain == PipeStart \/ WgWait \/ CmdWait

PipeReader == ReadStdout \/ StoreDiffs

PipeWriter == WriteStdin \/ CloseStdin

PipeProc == ProcRead \/ ProcWrite \/ ProcExit

PipeNext ==
    \/ PipeStart \/ WgWait \/ CmdWait
    \/ ReadStdout \/ StoreDiffs
    \/ WriteStdin \/ CloseStdin
    \/ CopyStdout
    \/ ProcRead \/ ProcWrite \/ ProcExit

PipeSpec == PipeInit /\ [][PipeNext]_vars

\* The Go scheduler runs every goroutine that can take a step, and the
\* operating system runs the subprocess.
PipeFairSpec ==
    /\ PipeSpec
    /\ WF_vars(PipeMain) /\ WF_vars(PipeReader) /\ WF_vars(PipeWriter)
    /\ WF_vars(CopyStdout) /\ WF_vars(PipeProc)

PipeReturned == ran.pc = "returned"

\* What the diff of a returned pipe holds for | and <.
PipeJoined ==
    PipeReturned /\ ran.arg # "" /\ ran.op \in {"|", "<"}
        => /\ ran.rd = "done" /\ ran.wr \in {"none", "done"}
           /\ ran.proc.state = "reaped"
           /\ ran.stdout = <<>>
           /\ Len(ds) = 1 /\ ds[1].At = dot
           /\ String(heap, ds[1].Text) = ran.sent

\* C26. Shell pipe interleaving: the goroutine that writes the addressed
\* text to the subprocess's stdin and the one that reads its stdout run
\* side by side, so every call of pipe returns in the end, also when the
\* subprocess writes more than a pipe holds before it has read all of its
\* input; and pipe returns only after both goroutines are done and the
\* process has been waited for, the returned Diffs holding all that the
\* subprocess wrote to its stdout.
PipeLaw == []PipeJoined /\ <>PipeReturned

\* A | whose subprocess had its stdout full while input was still to be
\* written, and that returned all the same.
PipeLawWitness ==
    /\ PipeReturned /\ ran.op = "|" /\ ran.err = "" /\ ran.jam
    /\ Len(ds) = 1 /\ String(heap, ds[1].Text) = ran.sent
    /\ Len(ran.sent) = ran.proc.gain * (dot[2] - dot[1])
    /\ Len(ran.sent) > PipeCap

----------------------------------------------------------------------------
(* The diffs of a successful Edit against the text they are meant for. *)

RECURSIVE WithinBounds(_, _, _)

\* Every diff of dd has 0 <= At[0] <= At[1] <= the length of the text at
\* its turn, for a text of n bytes to start with.
WithinBounds(h, dd, n) ==
    \/ dd = <<>>
    \/ /\ 0 <= Head(dd).At[1] /\ Head(dd).At[1] <= Head(dd).At[2] /\ Head(dd).At[2] <= n
       /\ WithinBounds(h, Tail(dd), n + TextLen(h, Head(dd)) - (Head(dd).At[2] - Head(dd).At[1]))

\* C27. Returned diffs are always applicable: whenever Edit succeeds, every
\* diff it returns has 0 <= At[0] <= At[1] <= the length of the text at the
\* diff's turn when the diffs are applied in order, and Diffs.Apply goes
\* through without reaching an index outside the rope.
ApplicableLaw ==
    Succeeded =>
        /\ WithinBounds(heap, ran.res.ds, Len(DocText))
        /\ ran.pc = "applied" => ~out.panic

----------------------------------------------------------------------------
(* The dot after Diff.Update against the text after the diff. *)

\* The lengths of the texts that both the diff and the dot are within.
Holding(d, dt) ==
    { n \in 0..MaxAt : d.At[1] <= d.At[2] /\ d.At[2] <= n
                          /\ 0 <= dt[1] /\ dt[1] <= dt[2] /\ dt[2] <= n }

\* C28. Dot stays a valid range: for a diff within a text of n bytes and a
\* dot within that text, Diff.Update returns a dot r with
\* 0 <= r[0] <= r[1] <= n + TextLen - (At[1] - At[0]), a range of the text
\* after the diff.
DotValid ==
    epc = "updated" =>
        \A n \in Holding(ds[1], dot) :
            /\ 0 <= out.dot[1] /\ out.dot[1] <= out.dot[2]
            /\ out.dot[2] <= n + TextLen(heap, ds[1]) - (ds[1].At[2] - ds[1].At[1])

----------------------------------------------------------------------------
(* Package re1: run, one turn of its loop at a time.  found holds the vm,   *)
(* the position in the loop (pc) and the number of turns that have read a   *)
(* rune (turns).                                                            *)

\* if v.match == nil { add(v, 0, newMem(v, nil)) }
runAdd(v) == IF v.nomatch THEN add(v, 0, newMem(v)) ELSE v

\* if v.lim >= 0 && v.at >= v.lim { return v.match }
runAtLim(v) == v.lim >= 0 /\ v.at >= v.lim

\* read(v); v.cur, v.next = v.next, v.cur[:0]; the steps of v.cur.
runStep(h, v) ==
    Only({ IF v2.panic THEN v2
           ELSE steps([v2 EXCEPT !.cur = v2.next, !.next = <<>>], 1)
           : v2 \in {vmRead(h, v)} })

\* if v.c == eof || (v.match != nil && len(v.next) == 0) { return v.match }
runEnds(v) == v.c = eof \/ (~v.nomatch /\ Len(v.next) = 0)

\* The patterns run, with nested and empty repetitions among them.
VmPats ==
    { <<>>, <<"a">>, <<"a", "*", "b">>, <<"a", "+">>, <<".", "*">>,
      <<"(", "a", "*", ")", "*">>, <<"a", "*", "*">>, <<"(", "a", "|", "b", ")", "*">>,
      <<"(", "a", "?", ")", "+", "b">>, <<"^", "*">>, <<"[", "^", "a", "]", "*", "$">> }

VmInit ==
    /\ \E t \in MatchTexts :
          /\ heap = New(<<>>, t).h /\ rrope = New(<<>>, t).p
          /\ plan = [first |-> "byte", k |-> 0, plen |-> Len(t)]
    /\ \E p \in VmPats, r \in BOOLEAN :
          found = [call |-> "none", pc |-> "new", pat |-> p,
                   re |-> re1New(PatText(p), [Reverse |-> r, Delimiter |-> 0]).re,
                   rev |-> r, s |-> 0, e |-> 0, turns |-> 0,
                   v |-> [panic |-> FALSE]]
    /\ fwd = Side(NIL) /\ bwd = Side(NIL)
    /\ ran = [cmd |-> "none"]
    /\ RopeIdle /\ EditIdle /\ ParseIdle

VmIdle ==
    UNCHANGED <<ran, rrope, plan, fwd, bwd>> /\ UNCHANGED ropeVars
        /\ UNCHANGED editVars /\ UNCHANGED parseVars

\* Find: newVM over the whole rope, no limit.
VmFind ==
    /\ found.pc = "new" /\ ~found.rev
    /\ found' = [found EXCEPT !.call = "Find", !.pc = "add",
                              !.e = RopeLen(heap, rrope),
                              !.v = newVM(heap, found.re, NewReader(rrope), FALSE)]
    /\ UNCHANGED heap /\ VmIdle

\* FindInRope: newVM over the rope from s, the rune before s, at = s, lim = e.
VmFindInRope ==
    /\ found.pc = "new" /\ ~found.rev
    /\ \E s \in 0..plan.plen : \E e \in s..plan.plen :
          \E sl \in {Slice(heap, rrope, s, RopeLen(heap, rrope))} :
             \E v \in {newVM(sl.h, found.re, NewReader(sl.p), FALSE)} :
                \E c \in {prevRune(heap, rrope, s)} :
                   /\ found' = [found EXCEPT !.call = "FindInRope", !.pc = "add",
                                             !.s = s, !.e = e,
                                             !.v = [v EXCEPT !.c = c.r, !.at = s, !.lim = e]]
                   /\ heap' = sl.h
    /\ VmIdle

\* FindReverseInRope: newVM over the reversed rope up to e, the rune at e,
\* lim = e - s.
VmFindReverseInRope ==
    /\ found.pc = "new" /\ found.rev
    /\ \E s \in 0..plan.plen : \E e \in s..plan.plen :
          \E sl \in {Slice(heap, rrope, 0, e)} :
             \E v \in {newVM(sl.h, found.re, NewReader(sl.p), TRUE)} :
                \E c \in {nextRune(heap, rrope, e)} :
                   /\ found' = [found EXCEPT !.call = "FindReverseInRope", !.pc = "add",
                                             !.s = s, !.e = e,
                                             !.v = [v EXCEPT !.c = c.r, !.lim = e - s]]
                   /\ heap' = sl.h
    /\ VmIdle

\* The head of run's loop: the thread of a new match attempt, and the limit.
VmAdd ==
    /\ found.pc = "add"
    /\ \E v \in {runAdd(found.v)} :
          found' = [found EXCEPT !.v = v,
                                 !.pc = IF v.panic \/ runAtLim(v) THEN "done" ELSE "step"]
    /\ UNCHANGED heap /\ VmIdle

\* The rest of run's loop: a rune is read and every thread takes its step.
VmStep ==
    /\ found.pc = "step"
    /\ \E v \in {runStep(heap, found.v)} :
          found' = [found EXCEPT !.v = v, !.turns = @ + 1,
                                 !.pc = IF v.panic \/ runEnds(v) THEN "done" ELSE "add"]
    /\ UNCHANGED heap /\ VmIdle

VmNext == VmFind \/ VmFindInRope \/ VmFindReverseInRope \/ VmAdd \/ VmStep

VmSpec == VmInit /\ [][VmNext]_vars

\* No two threads of the list have the same pc.
OnePerPc(l) == \A i, j \in DOMAIN l : i # j => l[i].pc # l[j].pc

\* The runes of the window of the call: every byte of MatchBytes is read as
\* a rune of its own.
WindowRunes == found.e - found.s

\* C29. Bounded thread list: at every step of the machine each list of
\* threads holds at most one thread for each pc, so no more threads than
\* the program has instructions; and run takes at most one turn of its
\* loop for each rune of the window (and one for the end of the input when
\* there is no limit) before it returns, whatever the program.
ThreadLaw ==
    found.pc \in {"add", "step", "done"} =>
        /\ OnePerPc(found.v.cur) /\ OnePerPc(found.v.next)
        /\ Len(found.v.cur) <= Len(found.re.prog)
        /\ Len(found.v.next) <= Len(found.re.prog)
        /\ found.turns <= WindowRunes + (IF found.v.lim < 0 THEN 1 ELSE 0)

\* (a*)* has run over "aa" and matched all of it: the empty inner loop
\* leads add back to instructions it has seen at the same position.
ThreadLawWitness ==
    /\ found.pc = "done" /\ found.call = "Find"
    /\ found.pat = <<"(", "a", "*", ")", "*">>
    /\ String(heap, rrope) = <<Rune["a"], Rune["a"]>>
    /\ found.turns = 3
    /\ ~found.v.nomatch /\ found.v.match[1] = 0 /\ found.v.match[2] = 2

----------------------------------------------------------------------------
(* Package rope: ReadFrom, and a caller that goes on with the ropes it was  *)
(* handed: every operation is done on the rope returned last, or on it and  *)
(* an older one, up to MaxOps operations in any order.                      *)

\* for { n, err := r.Read(buf); rope = Append(rope, New(string(buf[:n]))) ... }
\* over the reads that return bytes, then the read that returns io.EOF.
RECURSIVE readLoop(_, _, _)
readLoop(h, rope, reads) ==
    Only({ Only({ IF reads = <<>> THEN a ELSE readLoop(a.h, a.p, Tail(reads))
                  : a \in {RopeAppend(n.h, rope, n.p)} })
           : n \in {New(h, IF reads = <<>> THEN <<>> ELSE Head(reads))} })

\* ReadFrom returns a rope of all the bytes read until io.EOF.
ReadFrom(h, reads) ==
    Only({ readLoop(e.h, e.p, reads) : e \in {Empty(h)} })

\* What a reader hands out, read by read.
Reads ==
    { <<>>, <<Fill(smallSize, 7), Fill(1, 3)>>, <<Fill(1, 3), Fill(smallSize, 7)>> }

\* The caller is handed the ropes ps of the heap h.
Handed(h, ps, op, src, a, b, ins) ==
    /\ nops < MaxOps
    /\ heap' = h
    /\ held' = held \o [i \in DOMAIN ps |-> Held(ps[i], String(h, ps[i]))]
    /\ last' = Last(op, src, a, b, ins, ps = <<>>,
                    IF Len(ps) > 0 THEN ps[1] ELSE NIL,
                    IF Len(ps) > 1 THEN ps[2] ELSE NIL)
    /\ nops' = nops + 1
    /\ UNCHANGED editVars /\ UNCHANGED parseVars /\ UNCHANGED readVars
    /\ UNCHANGED useVars

MixNew(c) ==
    \E n \in {New(heap, c)} : Handed(n.h, <<n.p>>, "New", NIL, 0, 0, NIL)

MixReadFrom(reads) ==
    \E r \in {ReadFrom(heap, reads)} : Handed(r.h, <<r.p>>, "ReadFrom", NIL, 0, 0, NIL)

MixAppend(j, k) ==
    \E a \in {RopeAppend(heap, held[j].p, held[k].p)} :
        Handed(a.h, <<a.p>>, "Append", held[j].p, 0, 0, held[k].p)

MixSplit(k, i) ==
    \E s \in {Split(heap, held[k].p, i)} :
        Handed(s.h, IF s.panic THEN <<>> ELSE <<s.l, s.r>>, "Split", held[k].p, i, 0, NIL)

MixDelete(k, start, n) ==
    \E d \in {Delete(heap, held[k].p, start, n)} :
        Handed(d.h, IF d.panic THEN <<>> ELSE <<d.p>>, "Delete", held[k].p, start, n, NIL)

MixInsert(k, i, j) ==
    \E r \in {Insert(heap, held[k].p, i, held[j].p)} :
        Handed(r.h, IF r.panic THEN <<>> ELSE <<r.p>>, "Insert", held[k].p, i, 0, held[j].p)

MixSlice(k, start, end) ==
    \E r \in {Slice(heap, held[k].p, start, end)} :
        Handed(r.h, IF r.panic THEN <<>> ELSE <<r.p>>, "Slice", held[k].p, start, end, NIL)

\* The indices tried on a rope: one byte from either end, and the boundary
\* between the children of a node.
Cuts(h, p) ==
    { i \in 0..RopeLen(h, p) :
        \/ i \in {1, RopeLen(h, p) - 1}
        \/ h[p].kind = "node" /\ i = RopeLen(h, h[p].left) }

MixNext ==
    \/ \E n \in ChunkLens : MixNew(Chunk(n))
    \/ \E reads \in Reads : MixReadFrom(reads)
    \/ \E j \in DOMAIN held : MixAppend(j, Latest) \/ MixAppend(Latest, j)
    \/ \E i \in Cuts(heap, held[Latest].p) : MixSplit(Latest, i)
    \/ \E a, b \in Cuts(heap, held[Latest].p) : a < b /\ MixDelete(Latest, a, b - a)
    \/ \E i \in Cuts(heap, held[Latest].p), j \in DOMAIN held : MixInsert(Latest, i, j)
    \/ \E a, b \in Cuts(heap, held[Latest].p) : a < b /\ MixSlice(Latest, a, b)

MixInit == RopeInit /\ EditIdle /\ ParseIdle /\ ReadIdle /\ UseIdle

MixSpec == MixInit /\ [][MixNext]_vars

\* Every node of the rope p caches the sum of the lengths of its children.
RECURSIVE Exact(_, _)
Exact(h, p) ==
    \/ h[p].kind = "leaf"
    \/ /\ h[p].len = RopeLen(h, h[p].left) + RopeLen(h, h[p].right)
       /\ Exact(h, h[p].left) /\ Exact(h, h[p].right)

\* C30. Cached lengths are exact: in every rope handed out by New, Empty,
\* ReadFrom, Append, Split, Insert, Delete or Slice, after any sequence of
\* them, each node has len = left.Len() + right.Len(), and Len() is the
\* number of bytes of String().
LenLaw ==
    \A k \in DOMAIN held :
        /\ Exact(heap, held[k].p)
        /\ RopeLen(heap, held[k].p) = Len(String(heap, held[k].p))

\* The last of MaxOps operations was an Insert or a Delete on a rope with a
\* node, and a rope of several nodes came out of it.
LenLawWitness ==
    /\ nops = MaxOps /\ ~last.panic
    /\ last.op \in {"Insert", "Delete"}
    /\ heap[last.src].kind = "node"
    /\ heap[last.out1].kind = "node"
    /\ heap[heap[last.out1].left].kind = "node" \/ heap[heap[last.out1].right].kind = "node"

----------------------------------------------------------------------------
Init == RopeInit /\ EditIdle /\ ParseIdle /\ ReadIdle /\ UseIdle

Next == RopeNext

Spec == Init /\ [][Next]_vars

====
